---- MODULE Spec2Model ----
(***************************************************************************)
(* State-machine model of the asyncio ADS client                           *)
(* (src/ads_async/asyncio/client.py): the reconnect supervisor, the        *)
(* request/response multiplexer keyed by invoke id, and the Notification   *)
(* subscription engine with its callback executor.                         *)
(*                                                                         *)
(* Every action is one run of a coroutine between two suspension points    *)
(* of the event loop: asyncio runs one task at a time, so the code between *)
(* two awaits that really suspend is atomic.                               *)
(***************************************************************************)
EXTENDS Integers, Sequences, FiniteSets, TLC

\* ---------------------------------------------------------------- bounds
MaxInvoke == 2
MaxCallbacks == 2
MaxHandles == 2
MaxInbound == 1
MaxQueue == 2
MaxSymbols == 2
MaxFrames == 2
MaxListed == 2
MaxVaried == 2
MaxRaw == 3
MaxReleases == 2

\* ------------------------------------------------------------- constants
\* Python's None, for the integer-valued fields (no handle, no id, no sample).
None == -1
\* reconnect_rate=10, the default of AsyncioClient.__init__.
ReconnectRate == 10
NOERR == 0
Results == {NOERR, NOERR + 1}
InvokeIds == 0 .. (MaxInvoke - 1)
Calls == {1, 2}
Notifs == {1}
Samples == {1, 2}
Names == {1, 2}
\* Entries of close_log other than the handle of a release-handle command.
CacheCleared == -2
WriterClosed == -3
SymIds == 1 .. MaxSymbols

VARIABLES
    reconnect_rate,     \* AsyncioClient.reconnect_rate: seconds, or None
    sup_pc,             \* position of the _connect task
    writer,             \* AsyncioClient.writer: "unset" (no attribute yet),
                        \* "open", "lost" (peer gone) or "closed" (by close())
    connect_event,      \* AsyncioClient._connect_event
    conn_base,          \* history: the invoke counter when the connection
                        \* in use was made, where the specification keeps
                        \* track of it; None before
    invoke_counter,     \* next invoke id handed out by request_to_wire
    response_handlers,  \* AsyncioClient._response_handlers
    wire,               \* requests written to the transport, not yet served
    inbound,            \* frames sent by the peer, not yet dispatched
    call_pc,            \* position of each write_and_read call
    call_id,            \* invoke id returned by send to each call
    req_response,       \* _BlockingRequest.header and .response
    call_result,        \* what write_and_read returned to its caller
    req_event,          \* _BlockingRequest._event
    callbacks,          \* CallbackHandler.callbacks (tokens) per Notification
    callback_id,        \* CallbackHandler._callback_id per Notification
    handle,             \* Notification.handle
    most_recent,        \* Notification.most_recent_notification
    sub_id,             \* invoke ids of the add-notification requests sent
    handle_to_notification, \* protocol.Client.handle_to_notification
    exec_queue,         \* CallbackExecutor's queue of submitted jobs
    srv_regs,           \* notification registrations the server holds
    srv_next,           \* next notification handle the server hands out
    lost,               \* history: an add/remove-notification request or
                        \* its confirmation did not get through, or the
                        \* server refused the request
    sym_name,           \* Symbol.name of each Symbol object made so far
    sym_cache,          \* AsyncioClient._symbols: the cached objects, in
                        \* insertion order
    sym_handle,         \* Symbol.handle
    close_pc,           \* position of the close() call
    close_at,           \* close(): place in _symbols of the symbol being
                        \* released
    close_len,          \* close(): size of _symbols when its loop started
    close_held,         \* history: handles the cached symbols held when
                        \* close() was called
    close_log,          \* history: what the close() call did, in order
    disp_frame,         \* _handle_command: the frame dispatched last
    disp_pending,       \* _handle_command: the handlers of that frame that
                        \* have not ended yet; the first one is suspended
    disp_ran,           \* history: the handlers of that frame that have
                        \* ended, and how
    disp_serial,        \* history: arrival number of the frame in dispatch
    inbound_no,         \* history: arrival numbers of the frames of inbound
    arrivals,           \* history: number of frames that arrived
    fn_job,             \* structs.py: which function is applied ("none" in
                        \* the specifications of the client)
    lay_type,           \* the ctypes structure that is serialized
    lay_fill,           \* the value of its fields
    lay_hot,            \* the number of the one field that has another value
    lay_hotval,         \* the value of that field
    lay_bytes,          \* bytes(structure), <<>> before
    nid_text,           \* the argument of AmsNetId.from_string
    nid_pc,             \* "input", "parsed", "rejected" (ValueError), "shown"
    nid_octets,         \* AmsNetId.octets of the result
    nid_shown,          \* repr of the result
    en_strict,          \* strict of the enum property
    en_raw,             \* the field behind the enum property
    en_got,             \* outcome of the last read of the property
    en_put,             \* argument and outcome of the last write
    sym_info,           \* Symbol.info of each Symbol object: None, or the
                        \* size the resolved entry gives (index_group and
                        \* index_offset are set together with it)
    sym_ret,            \* history: per name, the object get_symbol_by_name
                        \* returned since _symbols was last cleared
    read_pc,            \* per Symbol object, the place of its read() call
    read_req,           \* history: the last read-by-handle request of the
                        \* object's read()
    rel_pc,             \* per caller of Symbol.release, its place
    rel_sym,            \* per caller of Symbol.release, its Symbol object
    rel_sent,           \* history: per Symbol object, the release-handle
                        \* commands written for it
    it_pc,              \* the place of the async generator of __aiter__
    it_token,           \* sid: the token of the generator's callback
    it_before,          \* history: the callback set before the iteration
    it_foreign          \* history: callbacks were added or removed by
                        \* others while the generator ran

vars == <<reconnect_rate, sup_pc, writer, connect_event, conn_base,
          invoke_counter,
          response_handlers, wire, inbound, call_pc, call_id, req_response,
          call_result, req_event, callbacks, callback_id, handle,
          most_recent, sub_id, handle_to_notification, exec_queue,
          srv_regs, srv_next, lost, sym_name, sym_cache,
          sym_handle, close_pc, close_at, close_len, close_held, close_log,
          disp_frame, disp_pending, disp_ran, disp_serial, inbound_no,
          arrivals, fn_job, lay_type, lay_fill, lay_hot, lay_hotval, lay_bytes,
          nid_text, nid_pc, nid_octets, nid_shown, en_strict, en_raw, en_got,
          en_put, sym_info, sym_ret, read_pc, read_req, rel_pc, rel_sym,
          rel_sent, it_pc, it_token, it_before, it_foreign>>

supVars == <<sup_pc, connect_event, conn_base>>
muxVars == <<invoke_counter, response_handlers, wire>>
callVars == <<call_pc, call_id, req_response, call_result, req_event>>
notifVars == <<callbacks, callback_id, handle, most_recent,
               handle_to_notification>>
srvVars == <<srv_regs, srv_next, lost>>
closeVars == <<sym_name, sym_cache, sym_handle, close_pc, close_at,
               close_len, close_held, close_log>>
dispVars == <<disp_frame, disp_pending, disp_ran, disp_serial, inbound_no,
              arrivals>>
layVars == <<lay_type, lay_fill, lay_hot, lay_hotval, lay_bytes>>
nidVars == <<nid_text, nid_pc, nid_octets, nid_shown>>
enVars == <<en_strict, en_raw, en_got, en_put>>
pureVars == <<fn_job, layVars, nidVars, enVars>>
symVars == <<sym_info, sym_ret>>
opVars == <<read_pc, read_req, rel_pc, rel_sym, rel_sent>>
iterVars == <<it_pc, it_token, it_before, it_foreign>>
extVars == <<pureVars, symVars, opVars, iterVars>>
clientVars == <<reconnect_rate, supVars, writer, muxVars, inbound, callVars,
                notifVars, sub_id, exec_queue, srvVars, closeVars, dispVars>>

HandleIds == 0 .. MaxHandles

\* The handle of a registration a previous session may have left on the
\* server (prune_unknown_notifications, lines 668-673, removes such ones).
\* New registrations get the handles 1, 2, ...
StaleHandle == 0

\* The callers of Symbol.release.
Releasers == {1, 2}

\* The sizes a symbol entry of the server gives.
InfoSizes == {1, 2}

\* No read-by-handle request.
NoRequest == [handle |-> None, size |-> None]

\* A frame, as the pair (header, item) that received_data yields: the
\* header's invoke id and command, the item's result, handle and sample.
Frame(id, cmd, result, h, sample) ==
    [invoke_id |-> id, cmd |-> cmd, result |-> result, handle |-> h,
     sample |-> sample]

\* header = None, response = None of a new _BlockingRequest (lines 193-194).
NoFrame == Frame(None, "NONE", None, None, None)

\* ============================================================ structs.py
\* ------------------------------------------------- ctypes structures
\* _pack_ = 1 of _AdsStructBase (line 45), which every structure inherits.
Pack == 1

\* ctypes types: an unsigned integer of n bytes, an array, a structure.
UInt(n) == [k |-> "int", n |-> n]
ArrayOf(t, len) == [k |-> "array", of |-> t, len |-> len]
Field(name, t) == [name |-> name, type |-> t]
Struct(fields) == [k |-> "struct", fields |-> fields]

\* A subclass of a structure: the fields of the base come first, the fields
\* of the subclass follow.
Derived(base, fields) == Struct(base.fields \o fields)

\* The _fields_ of lines 156-158, 219-224, 481-484, 586-594, 643-645 and
\* 649-652.
AmsNetIdT == Struct(<<Field("octets", ArrayOf(UInt(1), 6))>>)
AmsAddrT == Struct(<<Field("net_id", AmsNetIdT), Field("_port", UInt(2))>>)
AmsTcpHeaderT ==
    Struct(<<Field("reserved", UInt(2)), Field("length", UInt(4))>>)
AoEHeaderT ==
    Struct(<<Field("target", AmsAddrT), Field("source", AmsAddrT),
             Field("_command_id", UInt(2)), Field("_state_flags", UInt(2)),
             Field("length", UInt(4)), Field("error_code", UInt(4)),
             Field("invoke_id", UInt(4))>>)
AoEResponseHeaderT == Struct(<<Field("result", UInt(4))>>)
AoEReadResponseHeaderT ==
    Derived(AoEResponseHeaderT, <<Field("read_length", UInt(4))>>)

LayTypes == {"AmsTcpHeader", "AmsNetId", "AmsAddr", "AoEHeader",
             "AoEResponseHeader", "AoEReadResponseHeader"}

TypeOf(name) ==
    CASE name = "AmsTcpHeader" -> AmsTcpHeaderT
      [] name = "AmsNetId" -> AmsNetIdT
      [] name = "AmsAddr" -> AmsAddrT
      [] name = "AoEHeader" -> AoEHeaderT
      [] name = "AoEResponseHeader" -> AoEResponseHeaderT
      [] name = "AoEReadResponseHeader" -> AoEReadResponseHeaderT

Min(a, b) == IF a < b THEN a ELSE b
Max(a, b) == IF a < b THEN b ELSE a
RoundUp(x, a) == ((x + a - 1) \div a) * a

RECURSIVE AlignOf(_)
RECURSIVE SizeOf(_)
RECURSIVE EndOf(_, _)
RECURSIVE StructAlign(_, _)

\* The alignment of a field as the platform wants it, whatever _pack_ says.
FieldAlignNatural(t) == AlignOf(t)

\* ctypes: a field is aligned to its natural alignment, but to no more than
\* _pack_.
FieldAlign(t) == Min(Pack, AlignOf(t))

\* The alignment of the structure with the fields fs[1..i].
StructAlign(fs, i) ==
    IF i = 0 THEN 1 ELSE Max(StructAlign(fs, i - 1), FieldAlign(fs[i].type))

AlignOf(t) ==
    CASE t.k = "int" -> t.n
      [] t.k = "array" -> AlignOf(t.of)
      [] t.k = "struct" -> StructAlign(t.fields, Len(t.fields))

\* The offset of the end of field i of the fields fs.
EndOf(fs, i) ==
    IF i = 0 THEN 0
    ELSE RoundUp(EndOf(fs, i - 1), FieldAlign(fs[i].type))
            + SizeOf(fs[i].type)

\* ctypes.sizeof.
SizeOf(t) ==
    CASE t.k = "int" -> t.n
      [] t.k = "array" -> t.len * SizeOf(t.of)
      [] t.k = "struct" ->
            RoundUp(EndOf(t.fields, Len(t.fields)),
                    StructAlign(t.fields, Len(t.fields)))

\* Number of integers in a value of type t.
RECURSIVE LeafCount(_)
RECURSIVE LeafCountTo(_, _)
LeafCountTo(fs, i) ==
    IF i = 0 THEN 0 ELSE LeafCountTo(fs, i - 1) + LeafCount(fs[i].type)

LeafCount(t) ==
    CASE t.k = "int" -> 1
      [] t.k = "array" -> t.len * LeafCount(t.of)
      [] t.k = "struct" -> LeafCountTo(t.fields, Len(t.fields))

\* The values a field is given.
FieldValues == {0, 1, 258, 16909060}

\* The value of the i-th integer of the structure that is serialized.
LeafValue(i) == IF i = lay_hot THEN lay_hotval ELSE lay_fill

\* The n bytes of the unsigned integer v, least significant byte first; a
\* value that does not fit loses its upper bytes (ctypes does not check).
RECURSIVE LittleEndian(_, _)
LittleEndian(v, n) ==
    IF n = 0 THEN <<>> ELSE <<v % 256>> \o LittleEndian(v \div 256, n - 1)

Zeros(n) == [i \in 1 .. n |-> 0]

\* bytes(structure): the memory of a value of type t whose integers are
\* the LeafValue of first, first + 1, ...
RECURSIVE Encode(_, _)
RECURSIVE EncodeArray(_, _, _)
RECURSIVE EncodeFields(_, _, _)
EncodeArray(t, j, first) ==
    IF j = 0 THEN <<>>
    ELSE EncodeArray(t, j - 1, first)
            \o Encode(t.of, first + (j - 1) * LeafCount(t.of))

EncodeFields(fs, i, first) ==
    IF i = 0 THEN <<>>
    ELSE LET before == EncodeFields(fs, i - 1, first)
             at == RoundUp(Len(before), FieldAlign(fs[i].type))
         IN before \o Zeros(at - Len(before))
               \o Encode(fs[i].type, first + LeafCountTo(fs, i - 1))

Encode(t, first) ==
    CASE t.k = "int" -> LittleEndian(LeafValue(first), t.n)
      [] t.k = "array" -> EncodeArray(t, t.len, first)
      [] t.k = "struct" ->
            LET body == EncodeFields(t.fields, Len(t.fields), first)
            IN body \o Zeros(SizeOf(t) - Len(body))

\* ------------------------------------------------------------ AmsNetId
\* A string is the sequence of its characters.
DigitChars == <<"0", "1", "2", "3", "4", "5", "6", "7", "8", "9">>
IsDigit(c) == \E d \in 1 .. 10 : DigitChars[d] = c
DigitVal(c) == (CHOOSE d \in 1 .. 10 : DigitChars[d] = c) - 1

\* str.split('.').
RECURSIVE Split(_)
Split(t) ==
    IF \E i \in 1 .. Len(t) : t[i] = "."
    THEN LET i == CHOOSE i \in 1 .. Len(t) :
                     t[i] = "." /\ \A j \in 1 .. (i - 1) : t[j] # "."
         IN <<SubSeq(t, 1, i - 1)>> \o Split(SubSeq(t, i + 1, Len(t)))
    ELSE <<t>>

\* '.'.join.
RECURSIVE Join(_)
Join(parts) ==
    IF parts = <<>> THEN <<>>
    ELSE IF Len(parts) = 1 THEN parts[1]
    ELSE parts[1] \o <<".">> \o Join(Tail(parts))

\* str.strip of blanks.
RECURSIVE Strip(_)
Strip(t) ==
    IF t = <<>> THEN t
    ELSE IF Head(t) = " " THEN Strip(Tail(t))
    ELSE IF t[Len(t)] = " " THEN Strip(SubSeq(t, 1, Len(t) - 1))
    ELSE t

\* The number a sequence of digits denotes.
RECURSIVE DecVal(_)
DecVal(ds) ==
    IF ds = <<>> THEN 0
    ELSE DecVal(SubSeq(ds, 1, Len(ds) - 1)) * 10 + DigitVal(ds[Len(ds)])

\* int(str): blanks around, a sign, decimal digits; ok is FALSE where int
\* raises ValueError.
ParseInt(t) ==
    LET u == Strip(t)
        signed == u # <<>> /\ Head(u) \in {"+", "-"}
        ds == IF signed THEN Tail(u) ELSE u
        ok == ds # <<>> /\ \A i \in 1 .. Len(ds) : IsDigit(ds[i])
    IN [ok |-> ok,
        val |-> IF ~ok THEN 0
                ELSE IF signed /\ Head(u) = "-" THEN 0 - DecVal(ds)
                ELSE DecVal(ds)]

\* str(int) of a natural number.
RECURSIVE Str(_)
Str(n) ==
    IF n < 10 THEN <<DigitChars[n + 1]>>
    ELSE Str(n \div 10) \o <<DigitChars[(n % 10) + 1]>>

\* An octet of seven bits.
OctetOfSevenBits(v) == v % 128

\* The value of an element of c_uint8 * 6 (line 157) that is given the
\* integer v: ctypes keeps the low eight bits without a range check.
OctetOf(v) == v % 256

\* AmsNetId.from_string, lines 204-211: ok is FALSE where it raises
\* ValueError.
FromString(addr) ==
    LET parts == Split(addr)
        ints == [i \in 1 .. Len(parts) |-> ParseInt(parts[i])]
    IN IF (\E i \in 1 .. Len(parts) : ~ints[i].ok) \/ Len(parts) # 6
       THEN [ok |-> FALSE, octets |-> <<>>]
       ELSE [ok |-> TRUE,
             octets |-> [i \in 1 .. 6 |-> OctetOf(ints[i].val)]]

\* AmsNetId.__repr__, line 160-161.
Repr(octets) == Join([i \in 1 .. Len(octets) |-> Str(octets[i])])

\* "172.21.148.227.1.1", as its parts.
ExampleParts ==
    <<<<"1", "7", "2">>, <<"2", "1">>, <<"1", "4", "8">>, <<"2", "2", "7">>,
      <<"1">>, <<"1">>>>

\* The parts the strings given to from_string are made of.
NidParts ==
    {<<"0">>, <<"1">>, <<"2", "5", "5">>, <<"2", "5", "6">>, <<"0", "1">>,
     <<"+", "1">>, <<"-", "1">>, <<" ", "1">>, <<"x">>, <<>>}

\* The strings given to from_string: at most MaxVaried parts of NidParts,
\* followed by the last parts of the example.
NidTexts ==
    {Join(head \o SubSeq(ExampleParts, i, 6)) :
        head \in UNION {[1 .. n -> NidParts] : n \in 0 .. MaxVaried},
        i \in 1 .. 7}

\* --------------------------------------------------- enum properties
\* The values of the members of the enum class of a property.
EnumMembers == {1, 2}

\* The value of a c_uint16 field (lines 223, 589) that is given v.
UInt16(v) == v % 65536

\* The integers read from and written to an enum property.
RawInputs == (0 .. MaxRaw) \cup {65535, 65539}

NoOutcome == [kind |-> "none", arg |-> 0, ret |-> 0]

\* fget of _create_enum_property, lines 95-102, on the field value raw.
FGet(strict, raw) ==
    IF raw \in EnumMembers THEN [kind |-> "member", arg |-> raw, ret |-> raw]
    ELSE IF ~strict THEN [kind |-> "raw", arg |-> raw, ret |-> raw]
    ELSE [kind |-> "ValueError", arg |-> raw, ret |-> 0]

\* A setter that does not look at strict.
FSetUnchecked(strict, raw, v) == [ok |-> TRUE, raw |-> UInt16(v)]

\* fset of _create_enum_property, lines 104-109, on the field value raw:
\* the field value afterwards; ok is FALSE where it raises ValueError.
FSet(strict, raw, v) ==
    IF strict /\ v \notin EnumMembers
    THEN [ok |-> FALSE, raw |-> raw]
    ELSE [ok |-> TRUE, raw |-> UInt16(v)]

\* ---------------------------------------------------- the functions
LayAtRest ==
    /\ lay_type = "AmsNetId"
    /\ lay_fill = 0
    /\ lay_hot = 0
    /\ lay_hotval = 0
    /\ lay_bytes = <<>>

NidAtRest ==
    /\ nid_text = <<>>
    /\ nid_pc = "input"
    /\ nid_octets = <<>>
    /\ nid_shown = <<>>

EnAtRest ==
    /\ en_strict = TRUE
    /\ en_raw = 0
    /\ en_got = NoOutcome
    /\ en_put = NoOutcome

PureAtRest ==
    /\ fn_job = "none"
    /\ LayAtRest
    /\ NidAtRest
    /\ EnAtRest

SymAtRest ==
    /\ sym_info = [o \in SymIds |-> None]
    /\ sym_ret = [nm \in Names |-> None]
    /\ read_pc = [o \in SymIds |-> "idle"]
    /\ read_req = [o \in SymIds |-> NoRequest]
    /\ rel_pc = [r \in Releasers |-> "idle"]
    /\ rel_sym = [r \in Releasers |-> None]
    /\ rel_sent = [o \in SymIds |-> 0]

IterAtRest ==
    /\ it_pc = "idle"
    /\ it_token = None
    /\ it_before = {}
    /\ it_foreign = FALSE

ExtAtRest == PureAtRest /\ SymAtRest /\ IterAtRest

\* The client after __init__.
ClientAtRest ==
    /\ reconnect_rate = ReconnectRate
    /\ sup_pc = "start"
    /\ writer = "unset"
    /\ connect_event = FALSE
    /\ conn_base = None
    /\ invoke_counter = 0
    /\ response_handlers = [i \in InvokeIds |-> <<>>]
    /\ wire = <<>>
    /\ inbound = <<>>
    /\ call_pc = [c \in Calls |-> "idle"]
    /\ call_id = [c \in Calls |-> None]
    /\ call_result = [c \in Calls |-> NoFrame]
    /\ req_response = [c \in Calls |-> NoFrame]
    /\ req_event = [c \in Calls |-> FALSE]
    /\ callbacks = [n \in Notifs |-> {}]
    /\ callback_id = [n \in Notifs |-> 0]
    /\ handle = [n \in Notifs |-> None]
    /\ most_recent = [n \in Notifs |-> None]
    /\ sub_id = [n \in Notifs |-> {}]
    /\ handle_to_notification = [h \in HandleIds |-> None]
    /\ exec_queue = <<>>
    /\ srv_regs = {StaleHandle}
    /\ srv_next = 1
    /\ lost = FALSE
    /\ sym_name = [o \in SymIds |-> None]
    /\ sym_cache = <<>>
    /\ sym_handle = [o \in SymIds |-> None]
    /\ close_pc = "idle"
    /\ close_at = 0
    /\ close_len = 0
    /\ close_held = {}
    /\ close_log = <<>>
    /\ disp_frame = NoFrame
    /\ disp_pending = <<>>
    /\ disp_ran = <<>>
    /\ disp_serial = 0
    /\ inbound_no = <<>>
    /\ arrivals = 0

Init == ClientAtRest /\ ExtAtRest

\* An add/remove-notification request or confirmation is in the queue q.
NotifTraffic(q) ==
    \E i \in 1 .. Len(q) : q[i].cmd \in {"ADD_NOTIF", "DEL_NOTIF"}

\* ------------------------------------------------- reconnect supervisor
\* A supervisor that gives up after the first attempt that ended.
AfterAttemptGivesUp == "stopped"

\* _connect, line 365-372: after an attempt has ended, stop when the
\* reconnect rate is None, otherwise sleep.
AfterAttempt == IF reconnect_rate = None THEN "stopped" ELSE "sleeping"

\* A loop whose top is also reached while _connected_loop runs.
AttemptFromAnywhere == {"start", "sleeping", "connected"}

\* _connect, lines 351-356 and 372: the places from which the top of the
\* loop is reached: the start of the task and the end of the sleep.
AttemptFrom == {"start", "sleeping"}

\* _connect, line 353-359: the top of the loop calls open_connection.  It is
\* reached when the task starts and when the sleep of line 372 is over; the
\* reconnect rate is not looked at again on the way.
StartAttempt ==
    /\ sup_pc \in AttemptFrom
    /\ sup_pc' = "connecting"
    /\ UNCHANGED <<reconnect_rate, writer, connect_event, conn_base,
                   muxVars, inbound,
                   callVars, notifVars, sub_id, exec_queue, srvVars,
                   closeVars, dispVars, extVars>>

\* open_connection raises OSError (line 360).
ConnectFailed ==
    /\ sup_pc = "connecting"
    /\ sup_pc' = AfterAttempt
    /\ UNCHANGED <<reconnect_rate, writer, connect_event, conn_base, muxVars,
                   inbound,
                   callVars, notifVars, sub_id, exec_queue, srvVars,
                   closeVars, dispVars, extVars>>

\* open_connection succeeds; _connected_loop sets the event (line 417) and
\* waits in reader.read.
ConnectedStep ==
    /\ sup_pc = "connecting"
    /\ sup_pc' = "connected"
    /\ writer' = "open"
    /\ connect_event' = TRUE
    /\ wire' = <<>>
    /\ inbound' = <<>>
    /\ UNCHANGED <<reconnect_rate, invoke_counter,
                   response_handlers,
                   callVars, notifVars, sub_id, exec_queue, srvVars,
                   closeVars, dispVars, extVars>>

\* The connection is made.
Connected == ConnectedStep /\ UNCHANGED conn_base

\* The connection is made, and the requests written from now on are told
\* from the earlier ones by their invoke ids.
ConnectedMarked == ConnectedStep /\ conn_base' = invoke_counter

\* reader.read returns no data (peer closed, or the writer was closed by
\* close()): lines 420-424, then lines 365-372 of _connect.  What was still
\* in flight on the connection is lost; the writer object stays in place.
ReadEOF ==
    /\ sup_pc = "connected"
    /\ connect_event' = FALSE
    /\ sup_pc' = AfterAttempt
    /\ writer' = IF writer = "closed" THEN "closed" ELSE "lost"
    /\ wire' = <<>>
    /\ inbound' = <<>>
    /\ lost' = (lost \/ NotifTraffic(wire) \/ NotifTraffic(inbound))
    /\ UNCHANGED <<reconnect_rate, conn_base, invoke_counter,
                   response_handlers,
                   callVars, notifVars, sub_id, exec_queue, srv_regs,
                   srv_next,
                   closeVars, dispVars, extVars>>

\* reader.read raises (line 419: the connection was reset): nothing in
\* _connected_loop catches it, and in _connect the call of _connected_loop
\* is in the else branch of the try statement (line 362-363), which the
\* except OSError of line 360 does not cover.  The exception ends the
\* _connect task: lines 365-372 and 421-423 are not run.
ReadError ==
    /\ sup_pc = "connected"
    /\ sup_pc' = "crashed"
    /\ writer' = IF writer = "closed" THEN "closed" ELSE "lost"
    /\ wire' = <<>>
    /\ inbound' = <<>>
    /\ lost' = (lost \/ NotifTraffic(wire) \/ NotifTraffic(inbound))
    /\ UNCHANGED <<reconnect_rate, connect_event, conn_base, invoke_counter,
                   response_handlers, callVars, notifVars, sub_id,
                   exec_queue, srv_regs, srv_next, closeVars, dispVars, extVars>>

\* ------------------------------------------------------------ send

\* protocol.Client.request_to_wire (called on line 397): the invoke id of the
\* next request; the ids of one client go up by one per request.
NextInvokeId == invoke_counter

\* The handler appended to the list of the id that follows.
RegisterHandlerNextId(table, id, handler) ==
    [table EXCEPT ![(id + 1) % MaxInvoke] = Append(@, handler)]

\* send, line 401-402: the handler is appended to the list of its invoke id.
RegisterHandler(table, id, handler) ==
    [table EXCEPT ![id] = Append(@, handler)]

\* A transport that sends the last frame written first.
WrittenFirst(w, req) == IF writer = "open" THEN <<req>> \o w ELSE w

\* send, line 404: writer.write puts the frame on the transport when the
\* connection is open; a closed transport drops it, and nobody reads what is
\* written to a lost connection.
Written(w, req) == IF writer = "open" THEN Append(w, req) ELSE w

\* --------------------------------------------------- symbols and close
\* The cached Symbol objects, as a set.
Cached == {sym_cache[i] : i \in 1 .. Len(sym_cache)}

\* The Symbol objects made so far.
Made == {o \in SymIds : sym_name[o] # None}

\* A lookup that never finds the name.
CachedSymbolNever(nm) == None

\* get_symbol_by_name, lines 645-647: self._symbols[name], None standing
\* for the KeyError.
CachedSymbol(nm) ==
    IF \E o \in Cached : sym_name[o] = nm
    THEN CHOOSE o \in Cached : sym_name[o] = nm
    ELSE None

\* get_symbol_by_name, lines 643-651: the cached Symbol of that name, or a
\* new Symbol put into the cache.
GetSymbolByName(nm) ==
    /\ LET hit == CachedSymbol(nm) IN
        IF hit # None
        THEN /\ sym_ret' = [sym_ret EXCEPT ![nm] = hit]
             /\ UNCHANGED <<sym_name, sym_cache>>
        ELSE /\ Cardinality(Made) < MaxSymbols
             /\ LET o == Cardinality(Made) + 1 IN
                  /\ sym_name' = [sym_name EXCEPT ![o] = nm]
                  /\ sym_cache' = Append(sym_cache, o)
                  /\ sym_ret' = [sym_ret EXCEPT ![nm] = o]
    /\ UNCHANGED <<reconnect_rate, supVars, writer, muxVars, inbound,
                   callVars, notifVars, sub_id, exec_queue, srvVars,
                   sym_handle, close_pc, close_at, close_len, close_held,
                   close_log, dispVars, pureVars, sym_info, opVars,
                   iterVars>>

\* The handle the server gives to the symbol of object o.
ServerSymbolHandle(o) == o

\* Symbol.initialize, lines 255-268, at its end: both requests were
\* answered over the open connection, the entry is stored with its
\* index_group and index_offset (lines 262-264) and the handle of the
\* answer is stored (line 268).  A symbol made by get_symbol_by_name has no
\* index_group before its first initialize; with an index_group initialize
\* raises NotImplementedError (line 266).
SymbolInitialized(o) ==
    /\ o \in Made
    /\ sym_handle[o] = None
    /\ sym_info[o] = None
    /\ read_pc[o] = "idle"
    /\ sup_pc = "connected"
    /\ writer = "open"
    /\ \E size \in InfoSizes : sym_info' = [sym_info EXCEPT ![o] = size]
    /\ sym_handle' = [sym_handle EXCEPT ![o] = ServerSymbolHandle(o)]
    /\ UNCHANGED <<reconnect_rate, supVars, writer, muxVars, inbound,
                   callVars, notifVars, sub_id, exec_queue, srvVars,
                   sym_name, sym_cache, close_pc, close_at, close_len,
                   close_held, close_log, dispVars, pureVars, sym_ret,
                   opVars, iterVars>>

\* A loop that is left after the first release.
NextHeldFirstOnly(i, hnd) ==
    IF i = 1 /\ \E j \in 1 .. Len(sym_cache) : hnd[sym_cache[j]] # None
    THEN CHOOSE j \in 1 .. Len(sym_cache) :
            /\ hnd[sym_cache[j]] # None
            /\ \A k \in 1 .. (j - 1) : hnd[sym_cache[k]] = None
    ELSE 0

\* close(), line 339-340, and Symbol.release, line 247: the place in the cache,
\* from place i on, of the first symbol whose handle is not None under the
\* handles hnd; 0 when there is none.
NextHeld(i, hnd) ==
    IF \E j \in i .. Len(sym_cache) : hnd[sym_cache[j]] # None
    THEN CHOOSE j \in i .. Len(sym_cache) :
            /\ hnd[sym_cache[j]] # None
            /\ \A k \in i .. (j - 1) : hnd[sym_cache[k]] = None
    ELSE 0

\* close(), lines 339-345, from place i of the loop on, with the handles
\* hnd and the record log of what the call did so far.  A symbol without a
\* handle is passed without a suspension (line 247).  For the first symbol
\* with a handle, release_handle (lines 607-621) calls send without a
\* response handler: the write raises AttributeError when there is no
\* writer attribute, the drain raises ConnectionResetError at once on a
\* closed writer, and otherwise the call is suspended in the drain; neither
\* exception is caught in release, release_handle or close.  After the last
\* symbol the cache is cleared (line 341) and the writer closed (line 343);
\* the except OSError of line 344 does not cover the AttributeError of a
\* client that has no writer attribute.
CloseRun(i, hnd, log) ==
    LET j == NextHeld(i, hnd) IN
    /\ sym_handle' = hnd
    /\ sym_ret' = IF j # 0 THEN sym_ret ELSE [nm \in Names |-> None]
    /\ IF j # 0
       THEN /\ invoke_counter < MaxInvoke
            /\ invoke_counter' = NextInvokeId + 1
            /\ wire' = Written(wire, Frame(NextInvokeId, "RELEASE", None,
                                           hnd[sym_cache[j]], None))
            /\ UNCHANGED <<sym_cache, writer>>
            /\ IF writer \in {"open", "lost"}
               THEN /\ close_pc' = "releasing"
                    /\ close_at' = j
                    /\ close_log' = Append(log, hnd[sym_cache[j]])
               ELSE /\ close_pc' = IF writer = "unset"
                                   THEN "raised_AttributeError"
                                   ELSE "raised_OSError"
                    /\ close_at' = 0
                    /\ close_log' = log
       ELSE /\ UNCHANGED <<invoke_counter, wire>>
            /\ sym_cache' = <<>>
            /\ close_at' = 0
            /\ IF writer = "unset"
               THEN /\ close_pc' = "raised_AttributeError"
                    /\ writer' = writer
                    /\ close_log' = Append(log, CacheCleared)
               ELSE /\ close_pc' = "done"
                    /\ writer' = "closed"
                    /\ close_log' =
                          Append(Append(log, CacheCleared), WriterClosed)

\* close(), lines 336-345, from the call to its first suspension or its end.
Close ==
    /\ close_pc # "releasing"
    /\ reconnect_rate' = None
    /\ close_len' = Len(sym_cache)
    /\ close_held' = {sym_handle[o] : o \in Cached} \ {None}
    /\ CloseRun(1, sym_handle, <<>>)
    /\ UNCHANGED <<supVars, response_handlers, inbound, callVars, notifVars,
                   sub_id, exec_queue, srvVars, sym_name, dispVars, pureVars,
                   sym_info, opVars, iterVars>>

\* close() resumes from the drain of a release (send, line 405).  When the
\* drain returns, the handle of the symbol is set to None (line 249) and the
\* loop of line 339 goes on; it raises RuntimeError when the size of
\* _symbols has changed in the meantime.  The drain raises on a connection
\* that is no longer open.
CloseDrained ==
    /\ close_pc = "releasing"
    /\ \/ /\ writer # "closed"
          /\ LET hnd == [sym_handle EXCEPT ![sym_cache[close_at]] = None] IN
              IF Len(sym_cache) # close_len
              THEN /\ close_pc' = "raised_RuntimeError"
                   /\ sym_handle' = hnd
                   /\ close_at' = 0
                   /\ UNCHANGED <<invoke_counter, wire, writer, sym_cache,
                                  close_log, sym_ret>>
              ELSE CloseRun(close_at + 1, hnd, close_log)
       \/ /\ writer # "open"
          /\ close_pc' = "raised_OSError"
          /\ close_at' = 0
          /\ UNCHANGED <<invoke_counter, wire, writer, sym_cache,
                         sym_handle, close_log, sym_ret>>
    /\ UNCHANGED <<reconnect_rate, supVars, response_handlers, inbound,
                   callVars, notifVars, sub_id, exec_queue, srvVars,
                   sym_name, close_len, close_held, dispVars, pureVars,
                   sym_info, opVars, iterVars>>

\* ------------------------------------------------------ write_and_read
\* write_and_read line 550 -> _BlockingRequest.__aenter__ -> send, lines
\* 397-405: the invoke id is taken, got_response is registered, the frame is
\* written and the drain is awaited.  The write raises when there is no
\* writer attribute yet, the drain raises at once on a closed writer.
CallSend(c) ==
    /\ call_pc[c] = "idle"
    /\ invoke_counter < MaxInvoke
    /\ LET id == NextInvokeId IN
        /\ invoke_counter' = id + 1
        /\ response_handlers' =
              RegisterHandler(response_handlers, id,
                              [kind |-> "call", who |-> c])
        /\ wire' = Written(wire, Frame(id, "DEVINFO", None, None, None))
        /\ call_id' = [call_id EXCEPT ![c] = id]
        /\ call_pc' = [call_pc EXCEPT
                         ![c] = IF writer \in {"open", "lost"}
                                THEN "draining" ELSE "failed"]
    /\ UNCHANGED <<reconnect_rate, supVars, writer, inbound, req_response,
                   call_result, req_event, notifVars, sub_id, exec_queue,
                   srvVars,
                   closeVars, dispVars, extVars>>

\* send, line 405-406: the drain ends and __aenter__ returns, wait() is
\* entered (line 551); or the drain raises: always on a writer closed
\* meanwhile, possibly on a lost connection.
CallDrained(c) ==
    /\ call_pc[c] = "draining"
    /\ \/ /\ writer # "closed"
          /\ call_pc' = [call_pc EXCEPT ![c] = "waiting"]
       \/ /\ writer # "open"
          /\ call_pc' = [call_pc EXCEPT ![c] = "failed"]
    /\ UNCHANGED <<reconnect_rate, supVars, writer, muxVars, inbound,
                   call_id, req_response, call_result, req_event, notifVars,
                   sub_id, exec_queue, srvVars,
                   closeVars, dispVars, extVars>>

\* write_and_read, line 552: getattr(req, 'result', None).  A
\* _BlockingRequest has the attributes owner, request, options, _event,
\* header and response (lines 188-194) and no attribute 'result'.
ReqResult(c) == None

\* write_and_read, lines 551-555: the event is set, wait() returns; the
\* result is tested and the response returned.
CallResume(c) ==
    /\ call_pc[c] = "waiting"
    /\ req_event[c]
    /\ LET result == ReqResult(c) IN
          IF result # None /\ result # NOERR
          THEN /\ call_pc' = [call_pc EXCEPT ![c] = "raised"]
               /\ UNCHANGED call_result
          ELSE /\ call_pc' = [call_pc EXCEPT ![c] = "returned"]
               /\ call_result' = [call_result EXCEPT ![c] = req_response[c]]
    /\ UNCHANGED <<reconnect_rate, supVars, writer, muxVars, inbound,
                   call_id, req_response, req_event, notifVars, sub_id,
                   exec_queue, srvVars,
                   closeVars, dispVars, extVars>>

\* ---------------------------------------------------- Notification
\* CallbackHandler.process fans out in the order the callbacks were added:
\* the tokens of a set, lowest first.
RECURSIVE TokensInOrder(_)
TokensInOrder(S) ==
    IF S = {} THEN <<>>
    ELSE LET t == CHOOSE x \in S : \A y \in S : x <= y
         IN <<t>> \o TokensInOrder(S \ {t})

\* One job per callback: submit(callback, self, header, timestamp, sample).
RECURSIVE Deliveries(_, _, _)
Deliveries(n, tokens, sample) ==
    IF tokens = <<>> THEN <<>>
    ELSE <<[kind |-> "deliver", who |-> n, token |-> Head(tokens),
            sample |-> sample]>>
         \o Deliveries(n, Tail(tokens), sample)

\* Deliveries that overtake the jobs submitted before.
ProcessQueueFirst(q, n, sample) ==
    Deliveries(n, TokensInOrder(callbacks[n]), sample) \o q

\* Notification.process, lines 57-61: fan out to the registered callbacks,
\* then cache the sample.
ProcessQueue(q, n, sample) ==
    q \o Deliveries(n, TokensInOrder(callbacks[n]), sample)

\* CallbackHandler.add_callback (called on line 141): the token of the
\* callback added next; the tokens of one Notification go up by one.
NewToken(n) == callback_id[n]

\* The emptiness test made after the callback was added.
WasEmptyAfterAdd(n) == (callbacks[n] \cup {NewToken(n)}) = {}

\* Notification.add_callback, line 140: was_empty = not self.callbacks.
WasEmpty(n) == callbacks[n] = {}

\* Notification.add_callback, lines 143-156: what is submitted to the
\* executor for the callback just added under `token`.
AddCallbackJobs(n, token) ==
    IF WasEmpty(n)
    THEN <<[kind |-> "subscribe", who |-> n, token |-> None,
            sample |-> None]>>
    ELSE IF most_recent[n] # None
         THEN <<[kind |-> "deliver", who |-> n, token |-> token,
                 sample |-> most_recent[n]]>>
         ELSE <<>>

\* Notification.add_callback, lines 139-158.  It has no await: it runs in
\* one piece, and the callback lock covers lines 140-142.
AddCallbackStep(n) ==
    /\ callback_id[n] < MaxCallbacks
    /\ Len(exec_queue) < MaxQueue
    /\ LET token == NewToken(n) IN
        /\ callback_id' = [callback_id EXCEPT ![n] = token + 1]
        /\ callbacks' = [callbacks EXCEPT ![n] = @ \cup {token}]
        /\ exec_queue' = exec_queue \o AddCallbackJobs(n, token)
    /\ UNCHANGED <<reconnect_rate, supVars, writer, muxVars, inbound,
                   callVars, handle, most_recent, sub_id,
                   handle_to_notification, srvVars,
                   closeVars, dispVars, pureVars, symVars, opVars>>

\* add_callback called by the user.
AddCallback(n) == AddCallbackStep(n) /\ UNCHANGED iterVars

\* Notification._unsubscribe, lines 111-117: the handle the Notification is
\* left with once the lock is released.
HandleAfterUnsubscribe(n) == None

\* Notification._unsubscribe, lines 121-122: the remove-notification request
\* is sent for the saved handle if self.handle, read again after line 116
\* has cleared it, is not None.
UnsubscribeRequests(n, saved) ==
    IF HandleAfterUnsubscribe(n) # None
    THEN <<[kind |-> "remove", handle |-> saved]>>
    ELSE <<>>

\* Notification.remove_callback, lines 170-176, with _unsubscribe, lines
\* 111-122.  No await of it suspends: it runs in one piece.
RemoveCallbackStep(n, token) ==
    /\ token \in 0 .. (callback_id[n] - 1)
    /\ LET left == callbacks[n] \ {token}
           reqs == IF left = {} /\ handle[n] # None
                   THEN UnsubscribeRequests(n, handle[n])
                   ELSE <<>>
       IN
        /\ callbacks' = [callbacks EXCEPT ![n] = left]
        /\ handle' = [handle EXCEPT
                        ![n] = IF left = {} /\ @ # None
                               THEN HandleAfterUnsubscribe(n) ELSE @]
        /\ most_recent' = [most_recent EXCEPT
                             ![n] = IF left = {} THEN None ELSE @]
        /\ IF reqs = <<>>
           THEN UNCHANGED <<invoke_counter, wire, lost>>
           ELSE /\ invoke_counter < MaxInvoke
                /\ invoke_counter' = NextInvokeId + 1
                /\ wire' = Written(wire, Frame(NextInvokeId, "DEL_NOTIF",
                                               None, reqs[1].handle, None))
                /\ lost' = (lost \/ writer # "open")
    /\ UNCHANGED <<reconnect_rate, supVars, writer, response_handlers,
                   inbound, callVars, callback_id, sub_id,
                   handle_to_notification, exec_queue, srv_regs, srv_next,
                   closeVars, dispVars, pureVars, symVars, opVars>>

\* remove_callback called by the user.
RemoveCallback(n, token) == RemoveCallbackStep(n, token) /\ UNCHANGED iterVars

\* ------------------------------------------------- callback executor
\* CallbackExecutor runs the submitted jobs one after the other.  A
\* subscribe job is Notification._subscribe.subscribe, lines 98-103: send
\* the add-notification command with _response_handler registered; what it
\* raises (no open writer) is logged by the executor.  A deliver job calls
\* the user's callback.
RunJob ==
    /\ exec_queue # <<>>
    /\ LET job == Head(exec_queue) IN
        IF job.kind = "subscribe"
        THEN /\ invoke_counter < MaxInvoke
             /\ invoke_counter' = NextInvokeId + 1
             /\ response_handlers' =
                   RegisterHandler(response_handlers, NextInvokeId,
                                   [kind |-> "notif", who |-> job.who])
             /\ wire' = Written(wire, Frame(NextInvokeId, "ADD_NOTIF",
                                            None, None, None))
             /\ sub_id' = [sub_id EXCEPT ![job.who] = @ \cup {NextInvokeId}]
             /\ lost' = (lost \/ writer # "open")
        ELSE UNCHANGED <<muxVars, sub_id, lost,
                   closeVars, dispVars, extVars>>
    /\ exec_queue' = Tail(exec_queue)
    /\ UNCHANGED <<reconnect_rate, supVars, writer, inbound, callVars,
                   notifVars, srv_regs, srv_next,
                   closeVars, dispVars, extVars>>

\* ---------------------------------------------------- inbound dispatch
\* The handler list of a fixed key, whatever the header's invoke id.
InvokeIdHandlersWrongKey(id) == response_handlers[0]

\* _handle_command, line 430: the handlers of the header's invoke id.
InvokeIdHandlers(id) == response_handlers[id]

\* _response_handler without the test of the result.
ApplyHandlerAnyResult(handler, f, st) ==
    IF handler.kind = "call"
    THEN [st EXCEPT !.resp[handler.who] = f, !.event[handler.who] = TRUE]
    ELSE IF f.cmd = "ADD_NOTIF"
         THEN [st EXCEPT !.handle[handler.who] = f.handle,
                         !.index[f.handle] = handler.who]
         ELSE st

\* _BlockingRequest.got_response (lines 204-207) and
\* Notification._response_handler (lines 39-55), applied to the state
\* st = [resp, event, handle, index].  Only an add-notification response has
\* the attributes result and handle; on another item _response_handler
\* raises before it assigns, and _handle_command logs that (line 442).
ApplyHandler(handler, f, st) ==
    IF handler.kind = "call"
    THEN [st EXCEPT !.resp[handler.who] = f, !.event[handler.who] = TRUE]
    ELSE IF f.cmd = "ADD_NOTIF" /\ f.result = NOERR
         THEN [st EXCEPT !.handle[handler.who] = f.handle,
                         !.index[f.handle] = handler.who]
         ELSE st

\* _handle_command, lines 439-443: every handler of the list, in order.
RECURSIVE RunHandlers(_, _, _)
RunHandlers(hs, f, st) ==
    IF hs = <<>> THEN st
    ELSE RunHandlers(Tail(hs), f, ApplyHandler(Head(hs), f, st))

\* protocol.Client.handle_command (called on line 432): a notification
\* sample goes to the Notification that handle_to_notification names for its
\* handle, if any; no other frame changes the client's state there.
GenericTarget(f) ==
    IF f.cmd = "NOTIFICATION" THEN handle_to_notification[f.handle] ELSE None

\* _connected_loop line 426-427 and _handle_command, lines 429-443, for the
\* next frame: the generic handler of the protocol object (a notification
\* sample goes to the Notification the index names for its handle), then
\* the handlers of the invoke id.
HandleCommand ==
    /\ sup_pc = "connected"
    /\ inbound # <<>>
    /\ LET f == Head(inbound)
           target == GenericTarget(f)
           st == RunHandlers(InvokeIdHandlers(f.invoke_id), f,
                             [resp |-> req_response, event |-> req_event,
                              handle |-> handle,
                              index |-> handle_to_notification])
       IN
        /\ exec_queue' = IF target # None
                         THEN ProcessQueue(exec_queue, target, f.sample)
                         ELSE exec_queue
        /\ most_recent' = IF target # None
                          THEN [most_recent EXCEPT ![target] = f.sample]
                          ELSE most_recent
        /\ req_response' = st.resp
        /\ req_event' = st.event
        /\ handle' = st.handle
        /\ handle_to_notification' = st.index
    /\ inbound' = Tail(inbound)
    /\ UNCHANGED <<reconnect_rate, supVars, writer, muxVars, call_pc,
                   call_id, call_result, callbacks, callback_id, sub_id,
                   srvVars,
                   closeVars, dispVars, extVars>>

\* ------------------------------------------------------------- server
\* wire without its i-th request.
RemoveAt(w, i) == SubSeq(w, 1, i - 1) \o SubSeq(w, i + 1, Len(w))

\* The peer serves one of the requests on the connection, in any order, and
\* answers with the request's invoke id.  An add-notification request
\* creates a registration with a new handle, or fails (the handle field of
\* a failure is 0); a remove-notification request deletes the registration.
ServerReply(i) ==
    /\ sup_pc = "connected"
    /\ i \in 1 .. Len(wire)
    /\ Len(inbound) < MaxInbound
    /\ LET req == wire[i] IN
        \E res \in Results :
            /\ (req.cmd = "ADD_NOTIF" /\ res = NOERR) => srv_next <= MaxHandles
            /\ LET ok == req.cmd = "ADD_NOTIF" /\ res = NOERR
                   h == IF ok THEN srv_next
                        ELSE IF req.cmd = "ADD_NOTIF" THEN 0 ELSE None
               IN
                /\ inbound' = Append(inbound,
                                     Frame(req.invoke_id, req.cmd, res, h,
                                           None))
                /\ srv_next' = IF ok THEN srv_next + 1 ELSE srv_next
                /\ srv_regs' =
                      IF ok THEN srv_regs \cup {srv_next}
                      ELSE IF req.cmd = "DEL_NOTIF" /\ res = NOERR
                           THEN srv_regs \ {req.handle}
                           ELSE srv_regs
                /\ lost' = (lost \/ (NotifTraffic(<<req>>) /\ res # NOERR))
    /\ wire' = RemoveAt(wire, i)
    /\ UNCHANGED <<reconnect_rate, supVars, writer, invoke_counter,
                   response_handlers, callVars, notifVars, sub_id,
                   exec_queue,
                   closeVars, dispVars, extVars>>

\* The peer pushes a sample for a registration it holds.  The invoke id of
\* a notification frame is the peer's choice.
ServerPush(h, id, sample) ==
    /\ sup_pc = "connected"
    /\ h \in srv_regs
    /\ Len(inbound) < MaxInbound
    /\ Len(exec_queue) < MaxQueue
    /\ inbound' = Append(inbound, Frame(id, "NOTIFICATION", None, h, sample))
    /\ UNCHANGED <<reconnect_rate, supVars, writer, muxVars, callVars,
                   notifVars, sub_id, exec_queue, srvVars,
                   closeVars, dispVars, extVars>>

\* ------------------------------------------- dispatch in steps
\* _handle_command with response handlers that suspend: a handler passed to
\* send by its caller (response_handler, line 378) is any coroutine.
GenericHandler == [kind |-> "generic", who |-> 0]
UserHandler == [kind |-> "user", who |-> 1]
Outcomes == {"ok", "raised"}

\* The handlers a list of one invoke id is made of.
ListedHandlers ==
    {[kind |-> "call", who |-> 1], [kind |-> "notif", who |-> 1], UserHandler}

\* The lists of at most MaxListed different handlers.
HandlerLists ==
    {hs \in UNION {[1 .. n -> ListedHandlers] : n \in 0 .. MaxListed} :
        \A i, j \in 1 .. Len(hs) : i # j => hs[i] # hs[j]}

\* A connected client whose table holds a list of handlers for invoke id 0,
\* the call among them waiting for its response.
InitDispatch ==
    /\ reconnect_rate = ReconnectRate
    /\ sup_pc = "connected"
    /\ writer = "open"
    /\ connect_event = TRUE
    /\ conn_base = None
    /\ invoke_counter = 1
    /\ \E hs \in HandlerLists :
          LET called == \E i \in 1 .. Len(hs) : hs[i].kind = "call" IN
          /\ response_handlers = [i \in InvokeIds |-> IF i = 0 THEN hs ELSE <<>>]
          /\ call_pc = [c \in Calls |-> IF c = 1 /\ called THEN "waiting"
                                        ELSE "idle"]
          /\ call_id = [c \in Calls |-> IF c = 1 /\ called THEN 0 ELSE None]
    /\ wire = <<>>
    /\ inbound = <<>>
    /\ call_result = [c \in Calls |-> NoFrame]
    /\ req_response = [c \in Calls |-> NoFrame]
    /\ req_event = [c \in Calls |-> FALSE]
    /\ callbacks = [n \in Notifs |-> {}]
    /\ callback_id = [n \in Notifs |-> 0]
    /\ handle = [n \in Notifs |-> None]
    /\ most_recent = [n \in Notifs |-> None]
    /\ sub_id = [n \in Notifs |-> {}]
    /\ handle_to_notification = [h \in HandleIds |-> None]
    /\ exec_queue = <<>>
    /\ srv_regs = {StaleHandle}
    /\ srv_next = 1
    /\ lost = FALSE
    /\ sym_name = [o \in SymIds |-> None]
    /\ sym_cache = <<>>
    /\ sym_handle = [o \in SymIds |-> None]
    /\ close_pc = "idle"
    /\ close_at = 0
    /\ close_len = 0
    /\ close_held = {}
    /\ close_log = <<>>
    /\ disp_frame = NoFrame
    /\ disp_pending = <<>>
    /\ disp_ran = <<>>
    /\ disp_serial = 0
    /\ inbound_no = <<>>
    /\ arrivals = 0
    /\ ExtAtRest

\* The peer sends the response frame (id, cmd, res); it is the next arrival.
FrameArrives(id, cmd, res) ==
    /\ sup_pc = "connected"
    /\ arrivals < MaxFrames
    /\ LET h == IF cmd = "ADD_NOTIF"
                THEN (IF res = NOERR THEN 1 ELSE 0)
                ELSE None
       IN inbound' = Append(inbound, Frame(id, cmd, res, h, None))
    /\ inbound_no' = Append(inbound_no, arrivals + 1)
    /\ arrivals' = arrivals + 1
    /\ UNCHANGED <<reconnect_rate, supVars, writer, muxVars, callVars,
                   notifVars, sub_id, exec_queue, srvVars, closeVars,
                   disp_frame, disp_pending, disp_ran, disp_serial,
                   extVars>>

\* Notification._response_handler raises on an item that is no
\* add-notification response (it has no attribute result or handle);
\* got_response does not raise.
HandlerRaises(handler, f) == handler.kind = "notif" /\ f.cmd # "ADD_NOTIF"

\* An exception of a handler that gets out of _handle_command and of the
\* read loop, which ends the handlers of the frame.
OnHandlerEndPropagates(out, rest) ==
    IF out = "raised"
    THEN [pending |-> <<>>, loop |-> "crashed"]
    ELSE [pending |-> rest, loop |-> "connected"]

\* _handle_command, lines 431-437 and 439-443: the call of the generic
\* handler and the call of each response handler are in a try statement of
\* their own whose except Exception logs; whether a handler returned or
\* raised, the handlers `rest` that follow it are run and the read loop
\* goes on.
OnHandlerEnd(out, rest) == [pending |-> rest, loop |-> "connected"]

\* _handle_command, lines 439-443, from the handlers hs on, as far as the
\* first handler that suspends; st = [resp, event, handle, index, ran,
\* pending, loop].  HandlerEnded is what follows the end of handler h with
\* the outcome out.
RECURSIVE RunToSuspension(_, _, _)
RECURSIVE HandlerEnded(_, _, _, _, _)
HandlerEnded(h, out, rest, f, st) ==
    LET nxt == OnHandlerEnd(out, rest)
        st1 == [st EXCEPT !.ran = Append(@, [h |-> h, out |-> out])]
    IN IF nxt.loop = "crashed"
       THEN [st1 EXCEPT !.loop = "crashed", !.pending = <<>>]
       ELSE RunToSuspension(nxt.pending, f, st1)

RunToSuspension(hs, f, st) ==
    IF hs = <<>> THEN [st EXCEPT !.pending = <<>>]
    ELSE IF Head(hs).kind = "user" THEN [st EXCEPT !.pending = hs]
    ELSE HandlerEnded(Head(hs),
                      IF HandlerRaises(Head(hs), f) THEN "raised" ELSE "ok",
                      Tail(hs), f, ApplyHandler(Head(hs), f, st))

\* The state the handlers work on, as the record RunToSuspension takes.
DispatchState(ran) ==
    [resp |-> req_response, event |-> req_event, handle |-> handle,
     index |-> handle_to_notification, ran |-> ran, pending |-> <<>>,
     loop |-> "connected"]

\* The variables after the handlers have run as far as st.
DispatchedTo(st) ==
    /\ req_response' = st.resp
    /\ req_event' = st.event
    /\ handle' = st.handle
    /\ handle_to_notification' = st.index
    /\ disp_ran' = st.ran
    /\ disp_pending' = st.pending
    /\ sup_pc' = st.loop

\* A read loop that takes the next frame while a handler is suspended.
ReadLoopFreeAlways == TRUE

\* _connected_loop, line 426-427: the loop awaits _handle_command, and
\* _handle_command awaits each handler (line 441), so the loop takes the
\* next frame only when no handler of the frame before has still to end.
ReadLoopFree == disp_pending = <<>>

\* _connected_loop line 426-427 and _handle_command, lines 429-443, for the
\* next frame, a response: the generic handler of the protocol object ends
\* with the outcome gout, then the handlers of the invoke id run as far as
\* the first one that suspends.
DispatchFrame(gout) ==
    /\ sup_pc = "connected"
    /\ inbound # <<>>
    /\ ReadLoopFree
    /\ LET f == Head(inbound) IN
        /\ disp_frame' = f
        /\ DispatchedTo(HandlerEnded(GenericHandler, gout,
                                     InvokeIdHandlers(f.invoke_id), f,
                                     DispatchState(<<>>)))
    /\ disp_serial' = Head(inbound_no)
    /\ inbound' = Tail(inbound)
    /\ inbound_no' = Tail(inbound_no)
    /\ UNCHANGED <<reconnect_rate, writer, connect_event, conn_base, muxVars,
                   call_pc, call_id, call_result, callbacks, callback_id,
                   most_recent, sub_id, exec_queue, srvVars, closeVars,
                   arrivals, extVars>>

\* The suspended handler resumes and ends with the outcome out; the
\* handlers after it run as far as the next one that suspends.
HandlerDone(out) ==
    /\ sup_pc = "connected"
    /\ disp_pending # <<>>
    /\ DispatchedTo(HandlerEnded(Head(disp_pending), out,
                                 Tail(disp_pending), disp_frame,
                                 DispatchState(disp_ran)))
    /\ UNCHANGED <<reconnect_rate, writer, connect_event, conn_base, muxVars,
                   inbound, call_pc, call_id, call_result, callbacks,
                   callback_id, most_recent, sub_id, exec_queue, srvVars,
                   closeVars, disp_frame, disp_serial, inbound_no,
                   arrivals, extVars>>

Next ==
    \/ StartAttempt
    \/ ConnectFailed
    \/ Connected
    \/ ReadEOF
    \/ ReadError
    \/ Close
    \/ \E c \in Calls : CallSend(c)
    \/ \E c \in Calls : CallDrained(c)
    \/ \E c \in Calls : CallResume(c)
    \/ \E n \in Notifs : AddCallback(n)
    \/ \E n \in Notifs, t \in 0 .. (MaxCallbacks - 1) : RemoveCallback(n, t)
    \/ RunJob
    \/ HandleCommand
    \/ \E i \in 1 .. MaxInvoke : ServerReply(i)
    \/ \E h \in HandleIds, id \in InvokeIds, s \in Samples : ServerPush(h, id, s)

\* The whole client.
Spec == Init /\ [][Next]_vars

\* The connection engine: the supervisor, close, and write_and_read calls
\* multiplexed over the connection.
NextMux ==
    \/ StartAttempt
    \/ ConnectFailed
    \/ Connected
    \/ ReadEOF
    \/ ReadError
    \/ Close
    \/ \E c \in Calls : CallSend(c)
    \/ \E c \in Calls : CallDrained(c)
    \/ \E c \in Calls : CallResume(c)
    \/ HandleCommand
    \/ \E i \in 1 .. MaxInvoke : ServerReply(i)
    \/ \E h \in HandleIds, id \in InvokeIds, s \in Samples : ServerPush(h, id, s)

SpecMux == Init /\ [][NextMux]_vars

\* SpecMux with the scheduling of the event loop (the sleep of _connect
\* ends, open_connection ends one way or the other, a drain ends, a frame
\* that was read is dispatched, a caller whose event is set resumes) and a
\* peer that accepts a connection again and again and answers the requests
\* it has received.
FairSpecMux ==
    /\ SpecMux
    /\ WF_vars(StartAttempt)
    /\ WF_vars(ConnectFailed \/ Connected)
    /\ SF_vars(Connected)
    /\ WF_vars(HandleCommand)
    /\ \A c \in Calls : WF_vars(CallDrained(c))
    /\ \A c \in Calls : WF_vars(CallResume(c))
    /\ WF_vars(\E i \in 1 .. MaxInvoke : ServerReply(i))

\* The notification engine over the connection.
NextNotif ==
    \/ StartAttempt
    \/ ConnectFailed
    \/ Connected
    \/ ReadEOF
    \/ \E n \in Notifs : AddCallback(n)
    \/ \E n \in Notifs, t \in 0 .. (MaxCallbacks - 1) : RemoveCallback(n, t)
    \/ RunJob
    \/ HandleCommand
    \/ \E i \in 1 .. MaxInvoke : ServerReply(i)
    \/ \E h \in HandleIds, id \in InvokeIds, s \in Samples : ServerPush(h, id, s)

SpecNotif == Init /\ [][NextNotif]_vars

\* The dispatch of response frames to handlers that suspend and raise.
NextDispatch ==
    \/ \E id \in InvokeIds, cmd \in {"DEVINFO", "ADD_NOTIF"}, res \in Results :
          FrameArrives(id, cmd, res)
    \/ \E gout \in Outcomes : DispatchFrame(gout)
    \/ \E out \in Outcomes : HandlerDone(out)

SpecDispatch == InitDispatch /\ [][NextDispatch]_vars

\* The supervisor with the symbol cache and close().
NextConn ==
    \/ StartAttempt
    \/ ConnectFailed
    \/ Connected
    \/ ReadEOF
    \/ ReadError
    \/ \E nm \in Names : GetSymbolByName(nm)
    \/ \E o \in SymIds : SymbolInitialized(o)
    \/ Close
    \/ CloseDrained

SpecConn == Init /\ [][NextConn]_vars

\* SpecConn with the scheduling of the event loop: the sleep of _connect
\* ends, open_connection ends one way or the other, a drain ends; and a
\* peer that accepts a connection again and again.
FairSpecConn ==
    /\ SpecConn
    /\ WF_vars(StartAttempt)
    /\ WF_vars(ConnectFailed \/ Connected)
    /\ SF_vars(Connected)
    /\ WF_vars(CloseDrained)

\* =========================================================== properties
\* A step of HandleCommand: the read loop stays connected and takes the
\* first frame off the inbound queue.
Dispatching ==
    /\ sup_pc = "connected"
    /\ sup_pc' = "connected"
    /\ inbound # <<>>
    /\ inbound' = Tail(inbound)

\* Number of subscribe jobs of Notification n in the executor queue q.
SubscribeJobs(q, n) ==
    Cardinality({i \in 1 .. Len(q) :
                    q[i].kind = "subscribe" /\ q[i].who = n})

\* Number of requests `cmd` for handle h in the transport queue w.
Requests(w, cmd, h) ==
    Cardinality({i \in 1 .. Len(w) : w[i].cmd = cmd /\ w[i].handle = h})

\* The registrations the server holds for the Notifications of this client.
NotifRegs == srv_regs \ {StaleHandle}

\* An add/remove-notification request or confirmation is on its way.
InFlight ==
    \/ \E i \in 1 .. Len(exec_queue) : exec_queue[i].kind = "subscribe"
    \/ NotifTraffic(wire)
    \/ NotifTraffic(inbound)

\* C1: every write_and_read call that has returned, returned the item of a
\* frame whose invoke id is the id send gave to that call's request, and
\* that id is the id of no other call.
C1_ReturnsOwnResponse ==
    \A c \in Calls :
        call_pc[c] = "returned" =>
            /\ call_result[c].invoke_id = call_id[c]
            /\ \A d \in Calls \ {c} : call_result[c].invoke_id # call_id[d]

\* C1 witness: the call with the later id has returned its response while
\* the call with the earlier id still waits for its own.
C1_Witness ==
    /\ call_id[1] = 0
    /\ call_id[2] = 1
    /\ call_pc[1] = "waiting"
    /\ ~req_event[1]
    /\ call_pc[2] = "returned"

\* C2: once the frame carrying a call's invoke id has been dispatched to its
\* response handler, the pending-request table has no entry left for that
\* id.
C2_HandlerRemovedAfterDispatch ==
    \A c \in Calls : req_event[c] => InvokeIdHandlers(call_id[c]) = <<>>

\* C3: write_and_read returns a response only when its result code is "no
\* error"; a response with another result code makes it raise.
C3_ErrorResultRaises ==
    \A c \in Calls :
        call_pc[c] = "returned" =>
            ~(call_result[c].result # None /\ call_result[c].result # NOERR)

\* C4: a Notification whose callback set is empty has no handle.
C4_EmptyImpliesNoHandle ==
    \A n \in Notifs : callbacks[n] = {} => handle[n] = None

\* C5: the server never holds more than one registration of a Notification,
\* and when nothing is in flight (and no request or confirmation was lost
\* or refused) it holds one exactly if the callback set is not empty.
C5_OneRegistrationIffCallbacks ==
    \A n \in Notifs :
        /\ Cardinality(NotifRegs) <= 1
        /\ (~InFlight /\ ~lost) => (NotifRegs # {} <=> callbacks[n] # {})

\* C6: a remove_callback that empties the callback set of a Notification
\* with a handle clears the handle and the cached sample and sends exactly
\* one remove-notification request for that handle; with no handle it sends
\* nothing.
C6_LastRemoveUnsubscribes ==
    [][\A n \in Notifs :
          (callbacks[n] # {} /\ callbacks'[n] = {}) =>
              IF handle[n] # None
              THEN /\ handle'[n] = None
                   /\ most_recent'[n] = None
                   /\ writer = "open" =>
                         Requests(wire', "DEL_NOTIF", handle[n])
                            = Requests(wire, "DEL_NOTIF", handle[n]) + 1
              ELSE wire' = wire]_vars

\* C7: a step that takes the callback set from empty to non-empty submits
\* exactly one subscribe job, and no other step (an add_callback on a
\* non-empty set among them) submits one; a subscribe job run on an open
\* connection writes exactly one add-notification request.
C7_OneSubscribePerActivation ==
    [][\A n \in Notifs :
          /\ IF callbacks[n] = {} /\ callbacks'[n] # {}
             THEN exec_queue' =
                     Append(exec_queue,
                            [kind |-> "subscribe", who |-> n, token |-> None,
                             sample |-> None])
             ELSE SubscribeJobs(exec_queue', n)
                     <= SubscribeJobs(exec_queue, n)
          /\ (/\ exec_queue # <<>>
              /\ exec_queue' = Tail(exec_queue)
              /\ Head(exec_queue).kind = "subscribe"
              /\ Head(exec_queue).who = n
              /\ writer = "open") =>
                 /\ Len(wire') = Len(wire) + 1
                 /\ Requests(wire', "ADD_NOTIF", None)
                       = Requests(wire, "ADD_NOTIF", None) + 1
      ]_vars

\* C7 witness: two callbacks were added to an empty set and one subscribe
\* was issued (still queued, or already sent).
C7_Witness ==
    /\ Cardinality(callbacks[1]) = 2
    /\ SubscribeJobs(exec_queue, 1) + Cardinality(sub_id[1]) = 1

\* C8: the handle leaves None only when the response to an add-notification
\* request of the Notification is dispatched with result "no error", and
\* then it is the handle of that response and the index maps it to the
\* Notification; the dispatch of a failed response changes neither the
\* handle nor the index.
C8_HandleFromConfirmation ==
    [][\A n \in Notifs :
          /\ (handle[n] = None /\ handle'[n] # None) =>
                /\ Dispatching
                /\ Head(inbound).invoke_id \in sub_id[n]
                /\ Head(inbound).cmd = "ADD_NOTIF"
                /\ Head(inbound).result = NOERR
          /\ (/\ Dispatching
              /\ Head(inbound).invoke_id \in sub_id[n]
              /\ Head(inbound).cmd = "ADD_NOTIF") =>
                IF Head(inbound).result = NOERR
                THEN /\ handle'[n] = Head(inbound).handle
                     /\ handle_to_notification'[Head(inbound).handle] = n
                ELSE /\ handle'[n] = handle[n]
                     /\ handle_to_notification' = handle_to_notification
      ]_vars

\* C8 witness: a confirmation was dispatched; the Notification with a
\* callback has the handle the server registered and the index names it.
C8_Witness ==
    /\ callbacks[1] # {}
    /\ handle[1] \in NotifRegs
    /\ handle_to_notification[handle[1]] = 1

\* C9: an add_callback on a Notification that holds a cached sample submits
\* the new callback once, with that sample.
C9_CachedSampleDelivered ==
    [][\A n \in Notifs :
          (callback_id'[n] = callback_id[n] + 1 /\ most_recent[n] # None) =>
              exec_queue' =
                  Append(exec_queue,
                         [kind |-> "deliver", who |-> n,
                          token |-> callback_id[n],
                          sample |-> most_recent[n]])]_vars

\* C10: with the reconnect rate None, the supervisor that is connected or
\* sleeping between attempts does not start a connection attempt.
C10_NoAttemptAfterClose ==
    [][(reconnect_rate = None /\ sup_pc \in {"connected", "sleeping"}) =>
          sup_pc' # "connecting"]_vars

\* C11: after close(), no write_and_read caller stays suspended for ever.
\* Stated on the runs that have ended: once close() was called and the
\* _connect task is over, so that no frame is dispatched any more, no
\* write_and_read call is still waiting for its event.
C11_WaitersUnblockedByClose ==
    \A c \in Calls :
        ~(/\ reconnect_rate = None
          /\ close_pc = "done"
          /\ sup_pc = "stopped"
          /\ call_pc[c] = "waiting"
          /\ ~req_event[c])

\* C12: a write_and_read call that waits for its response on a connection
\* that was lost is resumed in the end.  Stated on the runs in which
\* close() is not called and no read raises, so that the supervisor goes on
\* reconnecting, and in which every request is written and drained on an
\* open connection.
C12_WaiterResumedOnDisconnect ==
    [](/\ reconnect_rate # None
       /\ sup_pc # "crashed"
       /\ \A c \in Calls : call_pc[c] = "draining" => writer = "open") =>
        \A c \in Calls :
            (call_pc[c] = "waiting" /\ ~req_event[c] /\ writer = "lost")
                ~> (call_pc[c] # "waiting")

\* C13: with reconnection enabled, a read error on the connection does not
\* end the _connect task.
C13_ReadErrorKeepsSupervisor ==
    ~(sup_pc = "crashed" /\ reconnect_rate # None)

\* C14: while the reconnect rate is set, an attempt that failed and a
\* connection the peer closed leave the supervisor sleeping; the sleep is
\* followed by a connection attempt; and with a peer that accepts again and
\* again the supervisor is connected again, unless close() was called.
C14_ReconnectsAfterFailure ==
    /\ [][(/\ reconnect_rate # None
           /\ sup_pc \in {"connecting", "connected"}
           /\ sup_pc' \notin {sup_pc, "connected", "crashed"})
              => sup_pc' = "sleeping"]_vars
    /\ (sup_pc = "sleeping") ~> (sup_pc = "connecting")
    /\ (sup_pc = "sleeping" /\ reconnect_rate # None)
           ~> (sup_pc = "connected" \/ reconnect_rate = None)

\* C14 witness: with the reconnect rate set, a connection attempt is under
\* way after the peer closed the connection before.
C14_Witness ==
    /\ sup_pc = "connecting"
    /\ writer = "lost"
    /\ reconnect_rate # None

\* A step in which a close() call returns.
CloseReturns ==
    /\ close_pc' = "done"
    /\ \/ close_pc = "releasing"
       \/ reconnect_rate # None
       \/ close_log' # close_log
       \/ close_held' # close_held
       \/ close_len' # close_len

\* The places of close_log that hold v.
LogPlaces(log, v) == {i \in 1 .. Len(log) : log[i] = v}

\* C15: when close() returns, the cache is empty, no cached symbol holds a
\* handle, a release-handle command was written for every handle the cached
\* symbols held when it was called, and the releases and the clearing of the
\* cache came before the closing of the writer, which came last.
C15_ReleaseThenClearThenClose ==
    [][CloseReturns =>
          /\ sym_cache' = <<>>
          /\ \A i \in 1 .. Len(sym_cache') : sym_handle'[sym_cache'[i]] = None
          /\ LogPlaces(close_log', WriterClosed) = {Len(close_log')}
          /\ LogPlaces(close_log', CacheCleared) = {Len(close_log') - 1}
          /\ \A h \in close_held' : LogPlaces(close_log', h) # {}
      ]_vars

\* C15 witness: close() has returned after it was called with two cached
\* symbols that both held a handle.
C15_Witness ==
    /\ close_pc = "done"
    /\ Cardinality(close_held) = 2
    /\ Len(close_log) = 4

\* C16: no I/O error raised while a symbol handle is released gets out of
\* close().
C16_CloseSwallowsIOErrors == close_pc # "raised_OSError"

C20_FreshInvokeId ==
    [][\A c \in Calls :
          call_id'[c] # call_id[c] =>
              /\ InvokeIdHandlers(call_id'[c]) = <<>>
              /\ \A d \in Calls \ {c} : call_id[d] < call_id'[c]
              /\ call_id[c] < call_id'[c]
      ]_vars

\* C20 witness: send has given the ids 0 and 1 to two requests whose
\* handlers are both registered.
C20_Witness ==
    /\ call_id[1] = 0
    /\ call_id[2] = 1
    /\ Len(InvokeIdHandlers(0)) = 1
    /\ Len(InvokeIdHandlers(1)) = 1
    /\ call_pc[1] = "draining"
    /\ call_pc[2] = "draining"

\* The handlers of disp_ran, in the order they ended.
RanHandlers == [i \in 1 .. Len(disp_ran) |-> disp_ran[i].h]

\* C17: whatever the generic handler and the response handlers of a frame
\* raise, the read loop stays connected and the handlers of the frame's
\* invoke id are all run, in order: the handlers that have ended, followed
\* by those that have still to end, are the generic handler and the whole
\* list of the invoke id.
C17_HandlerErrorsContained ==
    /\ sup_pc = "connected"
    /\ disp_frame # NoFrame =>
          RanHandlers \o disp_pending =
              <<GenericHandler>> \o InvokeIdHandlers(disp_frame.invoke_id)

\* C17 witness: in the dispatch of the second frame the first handler of
\* the list raised, and the call's handler after it was run and has set the
\* event.
C17_Witness ==
    /\ disp_pending = <<>>
    /\ Len(disp_ran) = 3
    /\ disp_ran[2].out = "raised"
    /\ disp_ran[3].h.kind = "call"
    /\ req_event[1]
    /\ disp_serial = 2

\* C18: the frames are dispatched in the order of their arrival, and the
\* dispatch of a frame begins only when every handler of the frame before
\* has ended, also when one of them was suspended.
C18_DispatchInArrivalOrder ==
    [][disp_serial' # disp_serial =>
          /\ disp_pending = <<>>
          /\ disp_serial' = disp_serial + 1]_vars

\* C18 witness: a handler of the first frame is suspended while the second
\* frame has arrived and waits.
C18_Witness ==
    /\ disp_serial = 1
    /\ disp_pending # <<>>
    /\ Head(disp_pending) = UserHandler
    /\ inbound # <<>>

\* ============================================= structs.py: the functions
\* The structures, addresses and enum properties the functions of
\* structs.py are applied to.
InitStructs ==
    /\ ClientAtRest
    /\ SymAtRest
    /\ IterAtRest
    /\ \/ /\ fn_job = "layout"
          /\ lay_type \in LayTypes
          /\ lay_fill \in FieldValues
          /\ lay_hot \in 0 .. LeafCount(TypeOf(lay_type))
          /\ lay_hotval \in FieldValues
          /\ lay_bytes = <<>>
          /\ NidAtRest
          /\ EnAtRest
       \/ /\ fn_job = "netid"
          /\ nid_text \in NidTexts
          /\ nid_pc = "input"
          /\ nid_octets = <<>>
          /\ nid_shown = <<>>
          /\ LayAtRest
          /\ EnAtRest
       \/ /\ fn_job = "enum"
          /\ en_strict \in BOOLEAN
          /\ en_raw \in {UInt16(v) : v \in RawInputs}
          /\ en_got = NoOutcome
          /\ en_put = NoOutcome
          /\ LayAtRest
          /\ NidAtRest

\* bytes(structure), _AdsStructBase.serialize.
Serialize ==
    /\ fn_job = "layout"
    /\ lay_bytes = <<>>
    /\ lay_bytes' = Encode(TypeOf(lay_type), 1)
    /\ UNCHANGED <<clientVars, symVars, opVars, iterVars, fn_job, lay_type, lay_fill, lay_hot,
                   lay_hotval, nidVars, enVars>>

\* AmsNetId.from_string(nid_text).
ParseNetId ==
    /\ fn_job = "netid"
    /\ nid_pc = "input"
    /\ LET r == FromString(nid_text) IN
        /\ nid_pc' = IF r.ok THEN "parsed" ELSE "rejected"
        /\ nid_octets' = r.octets
    /\ UNCHANGED <<clientVars, symVars, opVars, iterVars, fn_job, layVars, nid_text, nid_shown, enVars>>

\* repr of the AmsNetId that from_string returned.
ShowNetId ==
    /\ fn_job = "netid"
    /\ nid_pc = "parsed"
    /\ nid_shown' = Repr(nid_octets)
    /\ nid_pc' = "shown"
    /\ UNCHANGED <<clientVars, symVars, opVars, iterVars, fn_job, layVars, nid_text, nid_octets,
                   enVars>>

\* Read of an enum property.
EnumGet ==
    /\ fn_job = "enum"
    /\ en_got' = FGet(en_strict, en_raw)
    /\ UNCHANGED <<clientVars, symVars, opVars, iterVars, fn_job, layVars, nidVars, en_strict, en_raw,
                   en_put>>

\* Write of an enum property.
EnumSet ==
    /\ fn_job = "enum"
    /\ \E v \in RawInputs :
         LET r == FSet(en_strict, en_raw, v) IN
            /\ en_raw' = r.raw
            /\ en_put' = [kind |-> IF r.ok THEN "stored" ELSE "ValueError",
                          arg |-> v, ret |-> r.raw]
    /\ UNCHANGED <<clientVars, symVars, opVars, iterVars, fn_job, layVars, nidVars, en_strict, en_got>>

NextStructs ==
    \/ Serialize
    \/ ParseNetId
    \/ ShowNetId
    \/ EnumGet
    \/ EnumSet

SpecStructs == InitStructs /\ [][NextStructs]_vars

\* ---------------------------------------------------------------- C25
\* The sizes the layouts are declared with.
DeclaredSize(name) ==
    CASE name = "AmsTcpHeader" -> 6
      [] name = "AmsNetId" -> 6
      [] name = "AmsAddr" -> 8
      [] name = "AoEHeader" -> 32
      [] name = "AoEResponseHeader" -> 4
      [] name = "AoEReadResponseHeader" -> 8

\* The four bytes of a 32-bit unsigned integer, least significant first.
FourBytes(v) ==
    <<v % 256, (v \div 256) % 256, (v \div 65536) % 256,
      (v \div 16777216) % 256>>

\* C25: whatever the values of its fields, a serialized structure has
\* exactly its declared size (AmsTcpHeader 6, AmsNetId 6, AmsAddr 8,
\* AoEHeader 32, AoEResponseHeader 4, AoEReadResponseHeader 8), and the
\* bytes of an AoEReadResponseHeader are the bytes of the base
\* structure, the little-endian result, followed by the little-endian
\* read_length.
C25_LayoutSizes ==
    (fn_job = "layout" /\ lay_bytes # <<>>) =>
        /\ Len(lay_bytes) = DeclaredSize(lay_type)
        /\ lay_type = "AoEReadResponseHeader" =>
              /\ SubSeq(lay_bytes, 1, 4) = Encode(AoEResponseHeaderT, 1)
              /\ SubSeq(lay_bytes, 1, 4) = FourBytes(LeafValue(1))
              /\ SubSeq(lay_bytes, 5, 8) = FourBytes(LeafValue(2))

C25_Witness ==
    /\ lay_type = "AoEReadResponseHeader"
    /\ lay_bytes = <<1, 0, 0, 0, 4, 3, 2, 1>>

\* ---------------------------------------------------------------- C26
IsNumeral(ds) == ds # <<>> /\ \A i \in 1 .. Len(ds) : IsDigit(ds[i])

\* The decimal numeral of an octet: one to three digits, no leading zero,
\* at most 255.
IsOctetNumeral(p) ==
    /\ IsNumeral(p)
    /\ Len(p) <= 3
    /\ (Len(p) > 1 => p[1] # "0")
    /\ DecVal(p) <= 255

\* The text of an integer: a sign may precede the digits, blanks may
\* surround them.
IsInteger(p) ==
    \E a \in 0 .. Len(p), b \in 0 .. Len(p) :
        /\ a + b < Len(p)
        /\ \A i \in 1 .. a : p[i] = " "
        /\ \A i \in (Len(p) - b + 1) .. Len(p) : p[i] = " "
        /\ LET core == SubSeq(p, a + 1, Len(p) - b) IN
              \/ IsNumeral(core)
              \/ Head(core) \in {"+", "-"} /\ IsNumeral(Tail(core))

\* The parts between the dots of the text t number n and satisfy P.
Dots(t) == {i \in 1 .. Len(t) : t[i] = "."}
PartAt(t, k) ==
    LET before == {i \in Dots(t) : Cardinality({j \in Dots(t) : j < i}) = k - 2}
        after == {i \in Dots(t) : Cardinality({j \in Dots(t) : j < i}) = k - 1}
        from == IF k = 1 THEN 1 ELSE (CHOOSE i \in before : TRUE) + 1
        to == IF after = {} THEN Len(t) ELSE (CHOOSE i \in after : TRUE) - 1
    IN SubSeq(t, from, to)

SixIntegers(t) ==
    /\ Cardinality(Dots(t)) = 5
    /\ \A k \in 1 .. 6 : IsInteger(PartAt(t, k))

ValidNetIdText(t) ==
    /\ Cardinality(Dots(t)) = 5
    /\ \A k \in 1 .. 6 : IsOctetNumeral(PartAt(t, k))

ExampleText == Join(ExampleParts)

\* C26: from_string rejects exactly the strings that are not six integers
\* separated by dots; the repr of what it returns for a valid string (six
\* numerals of octets) is that string; "172.21.148.227.1.1" gives the
\* octets 172, 21, 148, 227, 1, 1.
C26_NetIdRoundTrip ==
    fn_job = "netid" =>
        /\ nid_pc = "rejected" => ~SixIntegers(nid_text)
        /\ nid_pc \in {"parsed", "shown"} => SixIntegers(nid_text)
        /\ (nid_pc = "shown" /\ ValidNetIdText(nid_text)) =>
              nid_shown = nid_text
        /\ (nid_pc \in {"parsed", "shown"} /\ nid_text = ExampleText) =>
              nid_octets = <<172, 21, 148, 227, 1, 1>>

C26_Witness ==
    /\ nid_pc = "shown"
    /\ nid_text = ExampleText
    /\ nid_shown = nid_text
    /\ ValidNetIdText(nid_text)

\* ---------------------------------------------------------------- C27
\* C27: a strict property raises ValueError on the read of a field value
\* that is no member and on the write of a value that is no member, and
\* the write leaves the field as it was; a lenient property returns such
\* a field value as it is, and stores such a 16-bit value as it is, so
\* that the field is serialized as that integer.
C27_EnumModes ==
    [][fn_job = "enum" =>
        /\ en_got' # en_got =>
              /\ en_got'.arg = en_raw
              /\ en_raw \notin EnumMembers =>
                    IF en_strict
                    THEN en_got'.kind = "ValueError"
                    ELSE en_got'.kind = "raw" /\ en_got'.ret = en_raw
        /\ (en_put' # en_put /\ en_put'.arg \notin EnumMembers) =>
              IF en_strict
              THEN en_put'.kind = "ValueError" /\ en_raw' = en_raw
              ELSE /\ en_put'.kind = "stored"
                   /\ en_put'.arg \in 0 .. 65535 =>
                         /\ en_raw' = en_put'.arg
                         /\ LittleEndian(en_raw', 2) =
                               <<en_put'.arg % 256, en_put'.arg \div 256>>
      ]_vars

C27_Witness ==
    /\ ~en_strict
    /\ en_put = [kind |-> "stored", arg |-> 65535, ret |-> 65535]
    /\ en_got = [kind |-> "raw", arg |-> 65535, ret |-> 65535]
    /\ en_raw = 65535

\* ---------------------------------------------------------------- C28
\* The delivery of `sample` to the callback `token` of Notification n.
Delivery(n, token, sample) ==
    [kind |-> "deliver", who |-> n, token |-> token, sample |-> sample]

\* C28: when a notification sample is dispatched to a Notification, the
\* executor queue grows at its end by exactly one delivery of that sample
\* for every callback registered at that moment, and the sample becomes
\* the most recent one; and the executor queue only ever grows at its end
\* and shrinks at its head, so that the samples reach a callback in the
\* order in which they were processed.
C28_ProcessFansOut ==
    [][/\ (Dispatching /\ GenericTarget(Head(inbound)) # None) =>
            LET n == GenericTarget(Head(inbound))
                sample == Head(inbound).sample
                old == Len(exec_queue)
                added == SubSeq(exec_queue', old + 1, Len(exec_queue'))
            IN /\ SubSeq(exec_queue', 1, old) = exec_queue
               /\ Len(added) = Cardinality(callbacks[n])
               /\ \A t \in callbacks[n] :
                     \E i \in 1 .. Len(added) :
                         added[i] = Delivery(n, t, sample)
               /\ most_recent'[n] = sample
       /\ exec_queue' # exec_queue =>
            \/ /\ Len(exec_queue') > Len(exec_queue)
               /\ SubSeq(exec_queue', 1, Len(exec_queue)) = exec_queue
            \/ exec_queue' = Tail(exec_queue)
      ]_vars

\* C28 witness: two different samples were processed one after the other
\* while a callback was registered; their deliveries are in the executor
\* queue in that order and the second sample is the most recent one.
C28_Witness ==
    \E n \in Notifs, s1, s2 \in Samples : \E t \in callbacks[n] :
        /\ s1 # s2
        /\ exec_queue = <<Delivery(n, t, s1), Delivery(n, t, s2)>>
        /\ most_recent[n] = s2

\* ---------------------------------------------------------------- C29
\* The connection state: connected while _connected_loop runs, connecting
\* while _connect is in open_connection or sleeps before the next attempt,
\* disconnected before the task has started and after it has ended.
ConnState ==
    IF sup_pc = "connected" THEN "Connected"
    ELSE IF sup_pc \in {"connecting", "sleeping"} THEN "Connecting"
    ELSE "Disconnected"

DrawnEdges ==
    {<<"Disconnected", "Connecting">>, <<"Connecting", "Connected">>,
     <<"Connected", "Disconnected">>, <<"Connected", "Connecting">>}

\* C29 as stated: the connection state changes only along
\* Disconnected -> Connecting -> Connected -> (Disconnected | Connecting).
C29_OnlyDrawnEdges ==
    [][ConnState' # ConnState =>
          <<ConnState, ConnState'>> \in DrawnEdges]_vars

\* C29, amended: the connection state starts at Disconnected and changes
\* only along the drawn edges and, once the reconnect rate is None, from
\* Connecting to Disconnected; Connected is entered only from an attempt
\* that succeeded, and an attempt is only started while no connection is
\* open.
C29_ConnectionStateMachine ==
    /\ ConnState = "Disconnected"
    /\ [][/\ ConnState' # ConnState =>
               \/ <<ConnState, ConnState'>> \in DrawnEdges
               \/ /\ <<ConnState, ConnState'>> =
                        <<"Connecting", "Disconnected">>
                  /\ reconnect_rate = None
          /\ (sup_pc' = "connected" /\ sup_pc # "connected") =>
               (sup_pc = "connecting" /\ writer' = "open")
          /\ (sup_pc' = "connecting" /\ sup_pc # "connecting") =>
               (sup_pc # "connected" /\ writer # "open")
         ]_vars

\* C29 witness: the task has ended after an attempt that failed, without
\* ever having been connected.
C29_Witness ==
    /\ sup_pc = "stopped"
    /\ writer = "unset"

\* ---------------------------------------------------------------- C30
\* C30: the frames on the transport are in the order of their invoke ids,
\* and every one of them has an id that was allocated; a step that writes
\* a frame writes the frame of the id it allocates.
C30_WireInInvokeIdOrder ==
    [][/\ \A i, j \in 1 .. Len(wire') :
             i < j => wire'[i].invoke_id < wire'[j].invoke_id
       /\ Len(wire') > Len(wire) =>
             /\ Len(wire') = Len(wire) + 1
             /\ wire'[Len(wire')].invoke_id = invoke_counter
             /\ invoke_counter' = invoke_counter + 1
      ]_vars

\* C30 witness: two callers are in send at the same time, and their
\* frames are on the transport in the order of the ids.
C30_Witness ==
    /\ Len(wire) = 2
    /\ wire[1].invoke_id = 0
    /\ wire[2].invoke_id = 1
    /\ call_pc[1] = "draining"
    /\ call_pc[2] = "draining"
    /\ call_id[1] # call_id[2]

\* ================================================= Symbol: read, release
\* Symbol.read and Symbol.release send their requests with write_and_read
\* and send, whose multiplexing over the connection is CallSend ..
\* CallResume; here a request is answered while the connection is open, and
\* a caller of send is suspended in the drain of line 405.

\* Symbol.read, lines 270-277, from the call to its first suspension.  With
\* a handle, the read-by-handle request is made at once.  Without one,
\* initialize is called (line 272): a symbol without index_group asks for
\* its entry (line 261); a symbol with an index_group raises
\* NotImplementedError (line 266).
ReadCall(o) ==
    /\ o \in Made
    /\ read_pc[o] = "idle"
    /\ IF sym_handle[o] # None
       THEN /\ read_pc' = [read_pc EXCEPT ![o] = "value"]
            /\ read_req' = [read_req EXCEPT
                              ![o] = [handle |-> sym_handle[o],
                                      size |-> sym_info[o]]]
       ELSE /\ read_pc' =
                  [read_pc EXCEPT
                     ![o] = IF sym_info[o] = None
                            THEN "info"
                            ELSE "raised_NotImplementedError"]
            /\ UNCHANGED read_req
    /\ UNCHANGED <<clientVars, pureVars, symVars, rel_pc, rel_sym, rel_sent,
                   iterVars>>

\* initialize, lines 261-268: get_symbol_info_by_name has returned; the
\* entry, its index_group and its index_offset are stored, and the handle
\* is asked for.
ReadInfoAnswered(o) ==
    /\ read_pc[o] = "info"
    /\ sup_pc = "connected"
    /\ writer = "open"
    /\ \E size \in InfoSizes : sym_info' = [sym_info EXCEPT ![o] = size]
    /\ read_pc' = [read_pc EXCEPT ![o] = "handle"]
    /\ UNCHANGED <<clientVars, pureVars, sym_ret, read_req, rel_pc, rel_sym,
                   rel_sent, iterVars>>

\* initialize, line 268, and read, lines 274-277: get_symbol_handle_by_name
\* has returned; the handle is stored and the read-by-handle request is
\* made for self.handle and self.info.size.
ReadHandleAnswered(o) ==
    /\ read_pc[o] = "handle"
    /\ sup_pc = "connected"
    /\ writer = "open"
    /\ sym_handle' = [sym_handle EXCEPT ![o] = ServerSymbolHandle(o)]
    /\ read_pc' = [read_pc EXCEPT ![o] = "value"]
    /\ read_req' = [read_req EXCEPT
                      ![o] = [handle |-> ServerSymbolHandle(o),
                              size |-> sym_info[o]]]
    /\ UNCHANGED <<reconnect_rate, supVars, writer, muxVars, inbound,
                   callVars, notifVars, sub_id, exec_queue, srvVars,
                   sym_name, sym_cache, close_pc, close_at, close_len,
                   close_held, close_log, dispVars, pureVars, symVars,
                   rel_pc, rel_sym, rel_sent, iterVars>>

\* read, lines 274-296: get_value_by_handle has returned, read returns the
\* value.
ReadValueAnswered(o) ==
    /\ read_pc[o] = "value"
    /\ sup_pc = "connected"
    /\ writer = "open"
    /\ read_pc' = [read_pc EXCEPT ![o] = "idle"]
    /\ UNCHANGED <<clientVars, pureVars, symVars, read_req, rel_pc, rel_sym,
                   rel_sent, iterVars>>

\* Symbol.release, lines 247-248, called by r on a symbol with a handle:
\* release_handle (lines 607-621) sends the command and is suspended in
\* the drain of send; on a closed writer the drain raises at once.  (On a
\* symbol without a handle release returns without doing anything.)
ReleaseCall(r, o) ==
    /\ rel_pc[r] = "idle"
    /\ o \in Made
    /\ sym_handle[o] # None
    /\ rel_sent[o] < MaxReleases
    /\ rel_sent' = [rel_sent EXCEPT
                      ![o] = IF writer = "open" THEN @ + 1 ELSE @]
    /\ IF writer \in {"open", "lost"}
       THEN /\ rel_pc' = [rel_pc EXCEPT ![r] = "draining"]
            /\ rel_sym' = [rel_sym EXCEPT ![r] = o]
       ELSE UNCHANGED <<rel_pc, rel_sym>>
    /\ UNCHANGED <<clientVars, pureVars, symVars, read_pc, read_req,
                   iterVars>>

\* Symbol.release resumes from the drain: when the drain returns the
\* handle is set to None (line 249); the drain raises on a connection that
\* is no longer open, and the handle stays.
ReleaseDrained(r) ==
    /\ rel_pc[r] = "draining"
    /\ \/ /\ writer # "closed"
          /\ sym_handle' = [sym_handle EXCEPT ![rel_sym[r]] = None]
       \/ /\ writer # "open"
          /\ UNCHANGED sym_handle
    /\ rel_pc' = [rel_pc EXCEPT ![r] = "idle"]
    /\ rel_sym' = [rel_sym EXCEPT ![r] = None]
    /\ UNCHANGED <<reconnect_rate, supVars, writer, muxVars, inbound,
                   callVars, notifVars, sub_id, exec_queue, srvVars,
                   sym_name, sym_cache, close_pc, close_at, close_len,
                   close_held, close_log, dispVars, pureVars, symVars,
                   read_pc, read_req, rel_sent, iterVars>>

\* Symbols obtained by name, read and released over a connection.
NextSym ==
    \/ StartAttempt
    \/ Connected
    \/ ReadEOF
    \/ \E nm \in Names : GetSymbolByName(nm)
    \/ \E o \in SymIds : ReadCall(o)
    \/ \E o \in SymIds : ReadInfoAnswered(o)
    \/ \E o \in SymIds : ReadHandleAnswered(o)
    \/ \E o \in SymIds : ReadValueAnswered(o)
    \/ \E r \in Releasers, o \in SymIds : ReleaseCall(r, o)
    \/ \E r \in Releasers : ReleaseDrained(r)

SpecSym == Init /\ [][NextSym]_vars

\* ---------------------------------------------------------------- C21
\* C21: as long as _symbols is not cleared by close(), the Symbol object
\* get_symbol_by_name returns for a name is the one it returned for that
\* name before, and the objects returned for two names are two objects.
C21_SameSymbolPerName ==
    [][\A nm \in Names :
          /\ (sym_ret[nm] # None /\ sym_ret'[nm] # None) =>
                sym_ret'[nm] = sym_ret[nm]
          /\ \A other \in Names \ {nm} :
                sym_ret'[nm] # None => sym_ret'[nm] # sym_ret'[other]
      ]_vars

\* C21 witness: both names have been looked up, and their two Symbol
\* objects are in the cache.
C21_Witness ==
    /\ sym_ret[1] # None
    /\ sym_ret[2] # None
    /\ sym_ret[1] # sym_ret[2]
    /\ Cached = {sym_ret[1], sym_ret[2]}

\* ---------------------------------------------------------------- C22
\* C22: whatever release() calls follow the initialize of a symbol, one
\* after the other or overlapping, no more than one release-handle command
\* is written for it.
C22_OneReleaseCommand == \A o \in SymIds : rel_sent[o] <= 1

\* ---------------------------------------------------------------- C23
\* C23: a read() called on a symbol that has no handle initializes the
\* symbol, starting with the request for its entry.
C23_ReadInitializesWithoutHandle ==
    [][\A o \in SymIds :
          (read_pc[o] = "idle" /\ read_pc'[o] # "idle"
              /\ sym_handle[o] = None) =>
                read_pc'[o] = "info"]_vars

\* ============================================ Notification.__aiter__
\* The Notification that is iterated over.
IterOver == CHOOSE n \in Notifs : TRUE

\* A generator that cleans up only when it is closed.
FinallyOnClosedOnly == {"closed"}

\* __aiter__, lines 72-78: the ways the generator is left on which the
\* finally block runs: CancelledError raised at the await of line 75,
\* GeneratorExit raised at the yield of line 76.
FinallyOn == {"cancelled", "closed"}

\* Everything but the callbacks and the generator stays as it is.
IterOnly ==
    UNCHANGED <<clientVars, pureVars, symVars, opVars, it_token, it_before,
                it_foreign>>

\* The first __anext__, lines 67-75: the queue is made, iter_callback is
\* added and the generator waits for the first item.
IterStart ==
    /\ it_pc = "idle"
    /\ it_pc' = "waiting"
    /\ it_token' = NewToken(IterOver)
    /\ it_before' = callbacks[IterOver]
    /\ it_foreign' = FALSE
    /\ AddCallbackStep(IterOver)

\* Line 75-76: iter_callback, run by the executor, has put an item into
\* the queue; the generator yields it and the consumer runs the body of its
\* loop.
IterItem ==
    /\ it_pc = "waiting"
    /\ it_pc' = "yielded"
    /\ IterOnly

\* The consumer asks for the next item: the generator goes on from the
\* yield and waits in queue.async_get.
IterNext ==
    /\ it_pc = "yielded"
    /\ it_pc' = "waiting"
    /\ IterOnly

\* The finally block, lines 77-78, on the way out by `exit`.
IterFinally(exit) ==
    IF exit \in FinallyOn
    THEN RemoveCallbackStep(IterOver, it_token)
    ELSE UNCHANGED <<clientVars, pureVars, symVars, opVars>>

\* The task of the consumer is cancelled while the generator waits for an
\* item: CancelledError is raised at line 75.
IterCancel ==
    /\ it_pc = "waiting"
    /\ it_pc' = "ended"
    /\ IterFinally("cancelled")
    /\ UNCHANGED <<it_token, it_before, it_foreign>>

\* The consumer leaves its loop (break, return, an exception or a
\* cancellation in the body): the generator stays suspended at the yield.
IterLeave ==
    /\ it_pc = "yielded"
    /\ it_pc' = "abandoned"
    /\ IterOnly

\* The generator that was left is finalized: the hook of the event loop
\* runs aclose(), which raises GeneratorExit at the yield.
IterFinalize ==
    /\ it_pc = "abandoned"
    /\ it_pc' = "ended"
    /\ IterFinally("closed")
    /\ UNCHANGED <<it_token, it_before, it_foreign>>

Iterating == it_pc \in {"waiting", "yielded", "abandoned"}

\* add_callback and remove_callback called by others, with the tokens they
\* hold.
OtherAdds ==
    /\ AddCallbackStep(IterOver)
    /\ it_foreign' = (it_foreign \/ Iterating)
    /\ UNCHANGED <<it_pc, it_token, it_before>>

OtherRemoves(t) ==
    /\ t # it_token
    /\ t \in callbacks[IterOver]
    /\ RemoveCallbackStep(IterOver, t)
    /\ it_foreign' = (it_foreign \/ Iterating)
    /\ UNCHANGED <<it_pc, it_token, it_before>>

\* An iteration over a Notification of a client that connects, next to
\* other users of the Notification.
NextIter ==
    \/ StartAttempt
    \/ Connected
    \/ IterStart
    \/ IterItem
    \/ IterNext
    \/ IterCancel
    \/ IterLeave
    \/ IterFinalize
    \/ OtherAdds
    \/ \E t \in 0 .. (MaxCallbacks - 1) : OtherRemoves(t)
    \/ RunJob

SpecIter == Init /\ [][NextIter]_vars

CallHandlersAt(c, id) ==
    {i \in 1 .. Len(InvokeIdHandlers(id)) :
        InvokeIdHandlers(id)[i] = [kind |-> "call", who |-> c]}

\* C31: a send that failed before its frame was written (no writer yet, or
\* the write or the drain raised) has left no response handler registered
\* for its invoke id.
C31_FailedSendLeavesNoHandler ==
    \A c \in Calls :
        call_pc[c] = "failed" => CallHandlersAt(c, call_id[c]) = {}

\* ---------------------------------------------------------------- C32
\* C32: the connect event is set exactly while the supervisor is in
\* _connected_loop: set when the connection is made, cleared when the
\* connection ends by the peer's close, by a read error or by close().
C32_EventIffConnected ==
    connect_event <=> (sup_pc = "connected")

\* ---------------------------------------------------------------- C33
\* C33: every entry of handle_to_notification maps a handle to a
\* Notification whose handle it is; a Notification whose handle is None
\* is named by no entry.
C33_IndexNamesCurrentHandles ==
    \A h \in DOMAIN handle_to_notification :
        handle_to_notification[h] # None =>
            handle[handle_to_notification[h]] = h

\* ---------------------------------------------------------------- C34
\* The notification engine over connections that are told apart.
NextResub ==
    \/ StartAttempt
    \/ ConnectFailed
    \/ ConnectedMarked
    \/ ReadEOF
    \/ \E n \in Notifs : AddCallback(n)
    \/ \E n \in Notifs, t \in 0 .. (MaxCallbacks - 1) : RemoveCallback(n, t)
    \/ RunJob
    \/ HandleCommand
    \/ \E i \in 1 .. MaxInvoke : ServerReply(i)
    \/ \E h \in HandleIds, id \in InvokeIds, s \in Samples : ServerPush(h, id, s)

SpecResub == Init /\ [][NextResub]_vars

\* SpecResub with the scheduling of the event loop (the sleep of _connect
\* ends, the executor runs the jobs submitted to it, a frame that was read
\* is dispatched) and a peer that answers the requests it has received.
FairSpecResub ==
    /\ SpecResub
    /\ WF_vars(StartAttempt)
    /\ WF_vars(RunJob)
    /\ WF_vars(HandleCommand)
    /\ WF_vars(\E i \in 1 .. MaxInvoke : ServerReply(i))

\* An add-notification request of Notification n was written on the
\* connection in use.
SentOnConnection(n) ==
    /\ conn_base # None
    /\ \E id \in sub_id[n] : id >= conn_base

\* Notification n has callbacks and a handle that was confirmed on an
\* earlier connection, and the client is connected again.
Reestablished(n) ==
    /\ sup_pc = "connected"
    /\ callbacks[n] # {}
    /\ handle[n] # None
    /\ ~SentOnConnection(n)

\* C34: after the connection was lost and made again, the add-notification
\* request of every Notification that has callbacks is sent again on the
\* new connection, unless its callbacks are removed or the connection is
\* lost again first.
C34_ResubscribedAfterReconnect ==
    \A n \in Notifs :
        Reestablished(n) ~>
            (SentOnConnection(n) \/ callbacks[n] = {} \/ sup_pc # "connected")

====
